---- MODULE Spec2Model ----
(***************************************************************************)
(* A model of the Jira export tool: the export entry points of the server  *)
(* (server/app.py), of the command line (main.py) and of the CSV script    *)
(* (export_from_csv.py), the Fetcher they drive (server/jira_client.py)    *)
(* and the files they write.                                               *)
(*                                                                         *)
(* A run is one execution of an entry point: one HTTP request handled by   *)
(* the server, or one invocation of a script.  Every run is cut into steps *)
(* at its network and file operations, the only places where it can fail   *)
(* or where another request of the same server process can interleave.     *)
(***************************************************************************)
EXTENDS Integers, Sequences, FiniteSets, TLC

\* ------------------------------------------------------------------ bounds

\* Longest list of issue keys given to a run.
MaxKeys == 3
\* Most attachments an issue of the tracker carries.
MaxAtt == 2
\* Longest list of issue keys of a request that runs beside another one.
MaxConcKeys == 1
\* Most page requests of one query that are followed.
MaxPages == 3
\* Largest result cap given to a query on its own.
MaxResults == 52

\* The attachments of an issue given to a renderer on its own.
MaxRenderAtt == 2

\* ------------------------------------------------------------- input sets

Reqs == {1, 2}

Keys == {"A-1", "B-2"}

\* The attachments of the tracker's issues are the first n of these names.
FileNames == <<"a.png", "b.txt", "c.png">>

\* 'xml' stands for every format that no endpoint knows.
Formats == {"pdf", "docx", "md", "png", "xml"}

UrlVals == {"", "/", "https://j"}
EmailVals == {"", "e"}
TokenVals == {"", "t"}

SeqsUpTo(S, n) == UNION {[1..k -> S] : k \in 0..n}

NoDupSeqs(S, n) == {s \in SeqsUpTo(S, n) : \A i, j \in 1..Len(s) : i # j => s[i] # s[j]}

\* -------------------------------------------------------------- sentinels

\* Python's None for an issue record, a path and a response.
NoIssue == [key |-> "", attachments |-> <<>>]
NoPath == <<>>
NoResponse == [status |-> 0, success |-> FALSE, error |-> "", files |-> <<>>,
               errors |-> <<>>, total |-> 0, exported |-> 0, failed |-> 0,
               issues |-> <<>>, count |-> 0]

\* A key that a raw object does not have, and JSON null (Python's None).
Absent == "<absent>"
Null == "<null>"

\* The raw issue and the Issue Record of a run that normalizes nothing.
NoUser == [null |-> TRUE, accountId |-> Absent, displayName |-> Absent,
           emailAddress |-> Absent, avatarUrls |-> Absent]
NoParent == [null |-> TRUE, key |-> Absent, summary |-> Absent]
NoRaw == [assignee |-> NoUser, reporter |-> NoUser, parent |-> NoParent,
          fields |-> <<>>, names |-> <<>>]
NoRecord == [assignee |-> [none |-> TRUE, name |-> Null, email |-> Null, avatar_url |-> Null],
             reporter |-> [none |-> TRUE, name |-> Null, email |-> Null, avatar_url |-> Null],
             parent |-> [none |-> TRUE, key |-> Null, summary |-> Null],
             story_points |-> [k |-> "null", s |-> "", items |-> <<>>, value |-> Absent,
                               name |-> Absent, displayName |-> Absent],
             epic |-> [k |-> "null", s |-> "", items |-> <<>>, value |-> Absent,
                       name |-> Absent, displayName |-> Absent],
             sprints |-> <<>>, custom_fields |-> <<>>]

VARIABLES
    run,      \* run[r]: the local state of run r (see IdleRun)
    fs,       \* the files on disk: path |-> what wrote it
    tracker   \* what the tracker holds: the attachments of each issue, their
              \* filenames, and the issues a query can match

vars == <<run, fs, tracker>>

\* ------------------------------------------------------------ pure helpers

\* str.rstrip('/') on the URL values above.
Rstrip(u) == IF u = "/" THEN "" ELSE u

\* Python's `a or b` on strings.
Or(a, b) == IF a # "" THEN a ELSE b

\* Python's all([...]) on the three credentials.
AllSet(c) == c.jira_url # "" /\ c.email # "" /\ c.api_token # ""

\* os.path.join(output_dir, f"{issue_key}.{ext}")
OutPath(dir, key, ext) == <<dir, key, ext>>

\* os.path.join(output_dir, 'attachments', issue_key, filename)
AttPath(dir, key, name) == <<dir, "attachments", key, name>>

\* The directory an entry point renders into: the server's TEMP_DIR, or
\* Config.OUTPUT_DIR for the scripts.
OutputDir(entry) ==
    IF entry \in {"api_export", "api_single"} THEN "TEMP_DIR" ELSE "exports"

\* The raw attachment list the tracker holds for an issue with n attachments.
Attachments(n) == [i \in 1..n |-> tracker.names[i]]

Write(f, path, content) ==
    [p \in DOMAIN f \cup {path} |-> IF p = path THEN content ELSE f[p]]

Remove(f, path) == [p \in DOMAIN f \ {path} |-> f[p]]

\* No document rendered.
NoDoc ==
    [format |-> "", description |-> FALSE, custom_fields |-> FALSE, labels |-> FALSE,
     components |-> FALSE, subtasks |-> FALSE, links |-> FALSE, comments |-> FALSE,
     attachments |-> <<>>, attachment_paths |-> <<>>, files |-> {}, readable |-> {},
     sections |-> <<>>, inlined |-> {}]

\* The greatest common divisor.
RECURSIVE Gcd(_, _)
Gcd(a, b) == IF b = 0 THEN a ELSE Gcd(b, a % b)

\* The fraction n / d in lowest terms.
Frac(n, d) == [n |-> n \div Gcd(n, d), d |-> d \div Gcd(n, d)]

\* k times a fraction.
Times(k, f) == Frac(k * f.n, f.d)

\* a <= b and a < b on fractions.
Leq(a, b) == a.n * b.d <= b.n * a.d
Less(a, b) == a.n * b.d < b.n * a.d

\* No image sized: the source in pixels, the size shown as fractions.
NoImage ==
    [renderer |-> "", src |-> [w |-> 0, h |-> 0],
     out |-> [w |-> Frac(0, 1), h |-> Frac(0, 1)]]

\* ------------------------------------------------------------------ state

IdleRun ==
    [entry |-> "idle",           \* the entry point this run executes
     pc |-> "idle",              \* the statement the run is at
     creds |-> [jira_url |-> "", email |-> "", api_token |-> ""],
     base_url |-> "",            \* JiraClient.base_url
     field_names |-> FALSE,      \* JiraClient._field_names is not None
     http |-> FALSE,             \* a request was sent to the tracker
     field_requests |-> 0,       \* requests sent to the field endpoint
     issue_keys |-> <<>>,
     export_format |-> "pdf",
     download |-> FALSE,         \* ?download=true of the single-issue endpoint
     download_attachments |-> TRUE,
     max_results |-> 0,          \* get_issues_by_jql: the result cap
     issues |-> <<>>,            \* get_issues_by_jql: the issues collected
     asked |-> 0,                \* maxResults of the last page request
     page_requests |-> 0,        \* page requests sent so far
     last_seen |-> FALSE,        \* a page said it was the last (isLast, or no token)
     raised |-> "",              \* the exception that left the entry point uncaught
     printed |-> "",             \* the last summary line a script printed
     rejected |-> {},            \* the last Fetcher operation: kinds of request refused
     propagated |-> {},          \* and kinds whose error left the operation
     idx |-> 0,                  \* position of the loop in issue_keys
     issue_data |-> NoIssue,
     att_i |-> 0,                \* attachments handled by download_all_attachments
     attachment_paths |-> <<>>,
     file_path |-> NoPath,
     steps |-> <<>>,             \* pipeline steps run for the current issue: op,
                                 \* ok (it returned), n (the attachment downloaded)
     faults |-> <<>>,            \* per finished issue: the step that raised, or "none"
     results |-> <<>>,
     errors |-> <<>>,
     kept |-> {},                \* the files os.remove could not delete
     raw |-> NoRaw,              \* the raw issue given to _parse_issue
     record |-> NoRecord,        \* the Issue Record it returned
     doc |-> NoDoc,              \* the issue a renderer was given and its document
     image |-> NoImage,          \* an image a renderer sized
     comment |-> [format |-> "", len |-> 0, out |-> 0],
     adf |-> <<>>, text |-> <<>>,   \* a comment body a renderer wrote
     response |-> NoResponse]

NoFiles == [p \in {} |-> [by |-> 0, idx |-> 0, att |-> 0]]

Init ==
    /\ run = [r \in Reqs |-> IdleRun]
    /\ fs = NoFiles
    /\ tracker = [att |-> [k \in Keys |-> IF k = "A-1" THEN MaxAtt ELSE 0], match |-> Keys,
                  names |-> FileNames]

\* The statuses the tracker answers a request with: success, and one that
\* stands for every other.
Statuses == {200, 404}

\* The credentials a request body can carry.
CredSets == [jira_url : {"", "https://j"}, email : EmailVals, api_token : TokenVals]

\* The process environment; Config.JIRA_* are read from it at import.
EnvSets == [jira_url : {"", "https://j"}, email : EmailVals, api_token : TokenVals]

\* -------------------------------------------------------- error handling

\* An except clause that prints the error and records nothing.
RaiseUnrecorded(s, op, e) ==
    [s EXCEPT !.pc = IF s.entry = "api_single" THEN "done" ELSE "loop",
              !.steps = Append(s.steps, [op |-> op, ok |-> FALSE, n |-> 0]),
              !.faults = Append(s.faults, op)]

\* An except clause outside the loop: the first error ends the batch.
RaiseAborts(s, op, e) ==
    [s EXCEPT !.pc = "done",
              !.steps = Append(s.steps, [op |-> op, ok |-> FALSE, n |-> 0]),
              !.faults = Append(s.faults, op),
              !.errors = Append(s.errors, [issue_key |-> s.issue_keys[s.idx], error |-> e])]

\* An except clause that prints the error and goes on with the next step.
RaiseGoesOn(s, op, e) ==
    [s EXCEPT !.steps = Append(s.steps, [op |-> op, ok |-> FALSE, n |-> 0]),
              !.pc = CASE op \in {"fetch", "fields"} -> "render"
                       [] op = "render" -> "read"
                       [] OTHER -> "done"]

\* What `except Exception as e` of the entry point does with an exception
\* raised at step `op` of the current issue.
Raise(s, op, e) ==
    LET key == IF s.entry = "api_single" THEN s.issue_keys[1] ELSE s.issue_keys[s.idx]
        t == [s EXCEPT !.steps = Append(s.steps, [op |-> op, ok |-> FALSE, n |-> 0])]
    IN  IF s.entry = "api_single"
        THEN [t EXCEPT !.pc = "done",
                       !.faults = Append(s.faults, op),
                       !.response = [NoResponse EXCEPT !.status = 500, !.error = e]]
        ELSE [t EXCEPT !.pc = "loop",
                       !.faults = Append(s.faults, op),
                       !.errors = Append(s.errors, [issue_key |-> key, error |-> e])]

\* A step of the current issue that returned normally.
Did(s, op) == [s EXCEPT !.steps = Append(s.steps, [op |-> op, ok |-> TRUE, n |-> 0])]

\* ------------------------------------------------------------ entry points

\* Config.validate(): the message it prints, "" when nothing is missing.
ConfigValidate(cfg) ==
    IF AllSet(cfg) THEN "" ELSE "Saknade konfigurationer"

\* Validation that leaves the credentials to the Fetcher.
ExportValidationNoCreds(keys, creds, fmt, word, md) ==
    IF keys = <<>> THEN "No issue_keys provided"
    ELSE IF fmt \notin {"pdf", "docx", "png", "md"} THEN "Invalid format"
    ELSE IF fmt = "docx" /\ ~word THEN "Word export not available on this server"
    ELSE IF fmt = "md" /\ ~md THEN "Markdown export not available on this server"
    ELSE ""

\* The checks export_issues makes before it builds its clients, in the
\* order of the code: the error of the 400 response, "" when all pass.
ExportValidation(keys, creds, fmt, word, md) ==
    IF keys = <<>> THEN "No issue_keys provided"
    ELSE IF ~AllSet(creds) THEN "Missing Jira credentials"
    ELSE IF fmt \notin {"pdf", "docx", "png", "md"} THEN "Invalid format"
    ELSE IF fmt = "docx" /\ ~word THEN "Word export not available on this server"
    ELSE IF fmt = "md" /\ ~md THEN "Markdown export not available on this server"
    ELSE ""

\* The JSON bodies of POST /api/export with at most n issue keys; a body of
\* several keys is drawn with one known format and one unknown.
Bodies(n) ==
    {b \in [issue_keys : SeqsUpTo(Keys, n), format : Formats, creds : CredSets] :
        Len(b.issue_keys) > 1 => b.format \in {"pdf", "xml"} /\ b.creds.jira_url # "/"}

\* The bodies of the requests that run beside another one.
ConcBodies(n) ==
    [issue_keys : SeqsUpTo(Keys, n) \ {<<>>}, format : {"pdf", "md"},
     creds : {[jira_url |-> "https://j", email |-> "e", api_token |-> "t"]}]

\* The bodies of requests that name an issue in lower case.
LowerBodies ==
    [issue_keys : {<<"a-1">>, <<"B-2", "a-1">>}, format : {"pdf", "docx", "md", "png"},
     creds : {[jira_url |-> "https://j", email |-> "e", api_token |-> "t"]}]

\* POST /api/export up to the loop over the issue keys.  Each credential is
\* the request's, else the environment's, else Config's (which was read
\* from the environment).  B is the set the request body is drawn from.
ExportIssues(r, B) ==
    /\ run[r].pc = "idle"
    /\ \E body \in B, env \in EnvSets, word \in BOOLEAN, md \in BOOLEAN :
        LET keys == body.issue_keys
            fmt == body.format
            req == body.creds
            creds == [jira_url |-> Or(Or(req.jira_url, env.jira_url), env.jira_url),
                      email |-> Or(Or(req.email, env.email), env.email),
                      api_token |-> Or(Or(req.api_token, env.api_token), env.api_token)]
            err == ExportValidation(keys, creds, fmt, word, md)
            s == [IdleRun EXCEPT !.entry = "api_export", !.creds = creds,
                                 !.issue_keys = keys, !.export_format = fmt]
        IN  run' = [run EXCEPT ![r] =
                IF err # ""
                THEN [s EXCEPT !.pc = "done",
                               !.response = [NoResponse EXCEPT !.status = 400, !.error = err]]
                ELSE [s EXCEPT !.pc = "loop", !.base_url = Rstrip(creds.jira_url)]]
    /\ UNCHANGED <<fs, tracker>>

\* GET /api/export/single/<issue_key> up to the fetch of the issue.
ExportSingleIssue(r) ==
    /\ run[r].pc = "idle"
    /\ \E key \in Keys, fmt \in Formats, dl \in BOOLEAN, env \in EnvSets :
        LET creds == [jira_url |-> Or(env.jira_url, env.jira_url),
                      email |-> Or(env.email, env.email),
                      api_token |-> Or(env.api_token, env.api_token)]
            s == [IdleRun EXCEPT !.entry = "api_single", !.creds = creds,
                                 !.issue_keys = <<key>>, !.export_format = fmt,
                                 !.download = dl]
        IN  run' = [run EXCEPT ![r] =
                IF ~AllSet(creds)
                THEN [s EXCEPT !.pc = "done",
                               !.response = [NoResponse EXCEPT !.status = 500,
                                    !.error = "Server not configured with Jira credentials"]]
                ELSE [s EXCEPT !.pc = "get_issue", !.idx = 1,
                               !.base_url = Rstrip(creds.jira_url)]]
    /\ UNCHANGED <<fs, tracker>>

\* A script that stops in Config.validate() exits with status 1.
ConfigExit(s, msg) ==
    [s EXCEPT !.pc = "done", !.response = [NoResponse EXCEPT !.status = 1, !.error = msg]]

\* python export_from_csv.py: the keys of the CSV file without repetitions,
\* then the loop over them.
ExportFromCsv(r) ==
    /\ run[r].pc = "idle"
    /\ \E keys \in NoDupSeqs(Keys, MaxKeys), cfg \in EnvSets :
        LET s == [IdleRun EXCEPT !.entry = "csv", !.creds = cfg, !.issue_keys = keys]
        IN  run' = [run EXCEPT ![r] =
                IF ConfigValidate(cfg) # ""
                THEN ConfigExit(s, ConfigValidate(cfg))
                ELSE [s EXCEPT !.pc = "loop", !.base_url = Rstrip(cfg.jira_url)]]
    /\ UNCHANGED <<fs, tracker>>

\* python main.py KEY...: export_single_issue for each key in turn.
Main(r) ==
    /\ run[r].pc = "idle"
    /\ \E keys \in SeqsUpTo(Keys, MaxKeys) \ {<<>>}, cfg \in EnvSets, noatt \in BOOLEAN :
        LET s == [IdleRun EXCEPT !.entry = "cli", !.creds = cfg, !.issue_keys = keys,
                                 !.download_attachments = ~noatt]
        IN  run' = [run EXCEPT ![r] =
                IF ConfigValidate(cfg) # ""
                THEN ConfigExit(s, ConfigValidate(cfg))
                ELSE [s EXCEPT !.pc = "loop", !.base_url = Rstrip(cfg.jira_url)]]
    /\ UNCHANGED <<fs, tracker>>

\* ---------------------------------------------------------------- Fetcher

\* The page size get_issues_by_jql never exceeds.
PageSize == 50

Min(a, b) == IF a < b THEN a ELSE b

\* A _get without raise_for_status.
GetAnyStatus(s, st) == IF s.base_url = "" THEN "MissingSchema" ELSE ""

\* JiraClient._get: the exception it raises for a response of status st,
\* "" when it returns the body.  requests refuses a URL without a scheme
\* before anything is sent.
Get(s, st) ==
    IF s.base_url = "" THEN "MissingSchema"
    ELSE IF st # 200 THEN "HTTPError"
    ELSE ""

\* The run after _get has sent its request (if it could).
Sent(s) == [s EXCEPT !.http = (s.http \/ s.base_url # "")]

\* The run after the tracker answered a request of this kind with status st.
Refused(s, kind, st) ==
    IF s.base_url # "" /\ st # 200 THEN [s EXCEPT !.rejected = s.rejected \cup {kind}] ELSE s

\* The run after exception e of a request of this kind left the Fetcher
\* operation that made it.
Escaped(s, kind, e) ==
    IF e = "HTTPError" THEN [s EXCEPT !.propagated = s.propagated \cup {kind}] ELSE s

\* The key the tracker holds an issue under.  It finds an issue under its
\* key in any case of the letters, and answers with the key as it holds it.
TrackerKey(key) == IF key = "a-1" THEN "A-1" ELSE key

\* The Issue Record _parse_issue builds, as far as the pipeline reads it.
ParseIssue(key) ==
    [key |-> TrackerKey(key), attachments |-> Attachments(tracker.att[TrackerKey(key)])]

\* An entry point that renders as soon as it holds the issue.
AfterFetchRenders(s, issue) == "render"

\* Where an entry point goes once it holds the issue: to the downloads when
\* they are wanted and the issue has attachments, else to the renderer.
AfterFetch(s, issue) ==
    IF s.download_attachments /\ issue.attachments # <<>> THEN "download" ELSE "render"

\* A _get_field_names that does not look at its cache.
NeedsFieldsAlways(s) == TRUE

\* _get_field_names: `if self._field_names is None`, the table is requested.
NeedsFields(s) == ~s.field_names

\* The run after _get_field_names requested the table and got status st.
FieldRequest(s, kind, st) ==
    [Refused(s, kind, st) EXCEPT !.field_requests = s.field_requests + 1]

\* jira.get_issue(issue_key): the issue request, then _parse_issue, whose
\* first field lookup requests the field names unless they are cached.
\* Neither _get nor get_issue catches anything.
GetIssue(r) ==
    /\ run[r].pc = "get_issue"
    /\ \E st1 \in Statuses, st2 \in Statuses :
        LET s == Refused(Sent(run[r]), "issue", st1)
            key == s.issue_keys[s.idx]
            e1 == Get(s, st1)
            t == IF NeedsFields(s) THEN FieldRequest(s, "fields", st2) ELSE s
            e2 == IF NeedsFields(s) THEN Get(s, st2) ELSE ""
            issue == ParseIssue(key)
        IN  run' = [run EXCEPT ![r] =
                IF e1 # "" THEN Raise(Escaped(s, "issue", e1), "fetch", e1)
                ELSE IF e2 # "" THEN Raise(Escaped(t, "fields", e2), "fields", e2)
                ELSE [Did(t, "fetch") EXCEPT !.field_names = TRUE, !.issue_data = issue,
                                             !.pc = AfterFetch(t, issue)]]
    /\ UNCHANGED <<fs, tracker>>

\* A main that runs export_multiple_issues on every list.
JqlReturnAlways(s) ==
    [s EXCEPT !.pc = "loop", !.issue_keys = [i \in 1..Len(s.issues) |-> s.issues[i].key]]

\* `return issues` of get_issues_by_jql into main: export_multiple_issues
\* when the list is not empty, else the line "Inga issues hittades".
JqlReturn(s) ==
    IF s.issues # <<>>
    THEN [s EXCEPT !.pc = "loop",
                   !.issue_keys = [i \in 1..Len(s.issues) |-> s.issues[i].key]]
    ELSE [s EXCEPT !.pc = "done", !.printed = "Inga issues hittades"]

\* `while len(issues) < max_results`
JqlWhile(s) ==
    IF Len(s.issues) < s.max_results THEN [s EXCEPT !.pc = "jql_page"] ELSE JqlReturn(s)

\* A page request that always asks for a full page.
PageParamFull(s) == PageSize

\* maxResults of the next page request.
PageParam(s) == Min(PageSize, s.max_results - Len(s.issues))

\* The lists of issues one page can add when n were asked for: none, one,
\* all but one, all.
PageIssues(S, n) == UNION {[1..k -> S] : k \in {0, 1, n - 1, n} \cap 0..n}

\* One iteration of the while loop of get_issues_by_jql: the page request,
\* the full fetch of each stub of the page, the paging marks.
\*  - An error of the page request leaves get_issues_by_jql and main, which
\*    catches nothing; there is no page then.
\*  - The page holds at most the maxResults asked for.  A stub without id is
\*    skipped.  The full issue of each other stub is requested and parsed
\*    inside try/except, which prints and goes on: `found` are the issues
\*    appended, stub_fail and fields_fail tell whether the tracker refused
\*    the issue request of a stub, or the field-name request made while
\*    parsing one (the names are requested until one request succeeds).
\*  - break when the page says it is the last one (isLast defaults to True)
\*    or carries no token, else the while condition.
\* P bounds the page requests that are followed.
FetchPage(r, P) ==
    /\ run[r].pc = "jql_page"
    /\ run[r].page_requests < P
    /\ \E st \in Statuses, tok \in BOOLEAN, last \in {"true", "false", "absent"},
          found \in PageIssues(tracker.match, PageParam(run[r])),
          stub_fail \in BOOLEAN, fields_fail \in BOOLEAN :
        LET s == [Refused(Sent(run[r]), "page", st) EXCEPT
                      !.asked = PageParam(run[r]),
                      !.page_requests = run[r].page_requests + 1]
            e == Get(s, st)
            rej == {k \in {"stub", "stub_fields"} :
                        \/ k = "stub" /\ stub_fail
                        \/ k = "stub_fields" /\ fields_fail}
            asks == (IF fields_fail THEN 1 ELSE 0)
                        + (IF NeedsFields(s) /\ found # <<>> THEN 1 ELSE 0)
            t == [s EXCEPT !.issues = s.issues \o [i \in 1..Len(found) |-> ParseIssue(found[i])],
                           !.field_names = (s.field_names \/ found # <<>>),
                           !.field_requests = s.field_requests + asks,
                           !.rejected = s.rejected \cup rej,
                           !.last_seen = (last = "true" \/ ~tok)]
        IN  /\ e # "" => found = <<>> /\ ~tok /\ last = "absent" /\ ~stub_fail /\ ~fields_fail
            /\ (stub_fail \/ fields_fail) => Len(found) < PageParam(run[r])
            /\ fields_fail => NeedsFields(run[r])
            /\ run' = [run EXCEPT ![r] =
                  IF e # ""
                  THEN [Escaped(s, "page", e) EXCEPT !.pc = "done", !.raised = e]
                  ELSE IF last \in {"true", "absent"} \/ ~tok
                  THEN JqlReturn(t)
                  ELSE JqlWhile(t)]
    /\ UNCHANGED <<fs, tracker>>

\* python main.py --jql QUERY --max-results m: get_issues_by_jql, then
\* export_multiple_issues over what it returned.  M is the set m is drawn from.
MainQuery(r, M) ==
    /\ run[r].pc = "idle"
    /\ \E m \in M, cfg \in EnvSets, noatt \in BOOLEAN :
        LET s == [IdleRun EXCEPT !.entry = "cli_multi", !.creds = cfg, !.max_results = m,
                                 !.download_attachments = ~noatt]
        IN  run' = [run EXCEPT ![r] =
                IF ConfigValidate(cfg) # ""
                THEN ConfigExit(s, ConfigValidate(cfg))
                ELSE JqlWhile([s EXCEPT !.base_url = Rstrip(cfg.jira_url)])]
    /\ UNCHANGED <<fs, tracker>>

\* ------------------------------------------------------- the batch loops

\* What a batch entry point reports after its loop: the JSON body of
\* export_issues, the summary of export_from_csv, the count main prints
\* after export_multiple_issues; main prints nothing after its key loop.
Finish(s) ==
    LET summary == [NoResponse EXCEPT !.success = TRUE, !.files = s.results,
                        !.errors = s.errors, !.total = Len(s.issue_keys),
                        !.exported = Len(s.results), !.failed = Len(s.errors)]
    IN  CASE s.entry = "api_export" ->
                [s EXCEPT !.pc = "done", !.response = [summary EXCEPT !.status = 200]]
          [] s.entry = "csv" ->
                [s EXCEPT !.pc = "done", !.printed = "SAMMANFATTNING", !.response = summary]
          [] s.entry = "cli_multi" ->
                [s EXCEPT !.pc = "done", !.printed = "Exporterade"]
          [] OTHER -> [s EXCEPT !.pc = "done"]

\* A loop that takes the keys from the end of the list.
StartIssueFromEnd(s) ==
    [s EXCEPT !.idx = Len(s.issue_keys) - s.idx, !.att_i = 0, !.attachment_paths = <<>>,
              !.file_path = NoPath, !.steps = <<>>, !.issue_data = NoIssue,
              !.pc = "get_issue"]

\* The next iteration of `for issue_key in issue_keys` (for issue_data in
\* issues, in export_multiple_issues, which holds the issue already).  The
\* paging of get_issues_by_jql is over by then, and its locals are gone.
StartIssue(s) ==
    LET i == s.idx + 1
        t == [s EXCEPT !.idx = i, !.att_i = 0, !.attachment_paths = <<>>,
                       !.file_path = NoPath, !.steps = <<>>]
    IN  IF s.entry = "cli_multi"
        THEN [t EXCEPT !.issue_data = s.issues[i], !.pc = AfterFetch(s, s.issues[i]),
                       !.asked = 0, !.page_requests = 0, !.last_seen = FALSE]
        ELSE [t EXCEPT !.issue_data = NoIssue, !.pc = "get_issue"]

NextIssue(r) ==
    /\ run[r].pc = "loop"
    /\ LET s == [run[r] EXCEPT !.rejected = {}, !.propagated = {}]
       IN  run' = [run EXCEPT ![r] =
               IF s.idx < Len(s.issue_keys) THEN StartIssue(s) ELSE Finish(s)]
    /\ UNCHANGED <<fs, tracker>>

\* ------------------------------------------------------ pipeline of an issue

\* download_all_attachments giving up at the first download that failed.
DownloadAttachmentStops(r) ==
    /\ run[r].pc = "download"
    /\ run[r].att_i < Len(run[r].issue_data.attachments)
    /\ \E st \in Statuses :
        LET s == run[r]
            i == s.att_i + 1
            path == AttPath(OutputDir(s.entry), s.issue_keys[s.idx], s.issue_data.attachments[i])
            t == [s EXCEPT !.att_i = i, !.http = TRUE,
                           !.pc = IF i = Len(s.issue_data.attachments)
                                  THEN "render" ELSE "download"]
        IN  IF st = 200
            THEN /\ fs' = Write(fs, path, [by |-> r, idx |-> 0, att |-> i])
                 /\ run' = [run EXCEPT ![r] =
                        [t EXCEPT !.attachment_paths = Append(s.attachment_paths, path),
                                  !.steps = Append(s.steps, [op |-> "download", ok |-> TRUE, n |-> i])]]
            ELSE /\ fs' = fs
                 /\ run' = [run EXCEPT ![r] =
                        [t EXCEPT !.pc = "render",
                                  !.steps = Append(s.steps, [op |-> "download", ok |-> FALSE, n |-> i])]]
    /\ UNCHANGED tracker

\* One iteration of download_all_attachments: download_attachment writes
\* the file under its filename and returns the path, or prints and returns
\* None, which is not appended.
DownloadAttachment(r) ==
    /\ run[r].pc = "download"
    /\ run[r].att_i < Len(run[r].issue_data.attachments)
    /\ \E st \in Statuses :
        LET s == run[r]
            i == s.att_i + 1
            path == AttPath(OutputDir(s.entry), s.issue_keys[s.idx], s.issue_data.attachments[i])
            t == [s EXCEPT !.att_i = i, !.http = TRUE,
                           !.pc = IF i = Len(s.issue_data.attachments)
                                  THEN "render" ELSE "download"]
        IN  IF st = 200
            THEN /\ fs' = Write(fs, path, [by |-> r, idx |-> 0, att |-> i])
                 /\ run' = [run EXCEPT ![r] =
                        [t EXCEPT !.attachment_paths = Append(s.attachment_paths, path),
                                  !.steps = Append(s.steps, [op |-> "download", ok |-> TRUE, n |-> i])]]
            ELSE /\ fs' = fs
                 /\ run' = [run EXCEPT ![r] =
                        [t EXCEPT !.steps = Append(s.steps, [op |-> "download", ok |-> FALSE, n |-> i])]]
    /\ UNCHANGED tracker

\* The extension of the file a renderer writes; the scripts render PDF.
FileExt(s) == IF s.entry \in {"api_export", "api_single"} THEN s.export_format ELSE "pdf"

\* The formats the single-issue endpoint renders.
SingleFormats == {"pdf", "docx", "png"}

\* What the entry point does with the path the renderer returned.
Rendered(s, path) ==
    LET t == [Did(s, "render") EXCEPT !.file_path = path]
        key == s.issue_keys[s.idx]
    IN  CASE s.entry \in {"api_export", "api_single"} -> [t EXCEPT !.pc = "read"]
          [] s.entry = "csv" ->
                [t EXCEPT !.pc = "loop", !.faults = Append(s.faults, "none"),
                          !.results = Append(s.results, [issue_key |-> key, path |-> path])]
          [] OTHER ->
                [t EXCEPT !.pc = "loop", !.faults = Append(s.faults, "none"),
                          !.results = Append(s.results, [issue_key |-> key, path |-> path])]

\* generate_pdf / generate_docx / generate_markdown / create_png_summary:
\* the renderer writes {issue_key}.{ext} into its output directory, or
\* raises.  The single-issue endpoint answers 400 here for a format it
\* does not render.
Render(r) ==
    /\ run[r].pc = "render"
    /\ \E ok \in BOOLEAN, word \in BOOLEAN :
        LET s == run[r]
            path == OutPath(OutputDir(s.entry), s.issue_data.key, FileExt(s))
            refuse == IF s.entry # "api_single" THEN ""
                      ELSE IF s.export_format \notin SingleFormats THEN "Invalid format"
                      ELSE IF s.export_format = "docx" /\ ~word
                           THEN "Word export not available"
                      ELSE ""
        IN  IF refuse # ""
            THEN /\ fs' = fs
                 /\ run' = [run EXCEPT ![r] =
                        [s EXCEPT !.pc = "done", !.faults = Append(s.faults, "format"),
                                  !.response = [NoResponse EXCEPT !.status = 400,
                                                                  !.error = refuse]]]
            ELSE IF ok
            THEN /\ fs' = Write(fs, path, [by |-> r, idx |-> s.idx, att |-> 0])
                 /\ run' = [run EXCEPT ![r] = Rendered(s, path)]
            ELSE /\ fs' = fs
                 /\ run' = [run EXCEPT ![r] = Raise(s, "render", "RenderError")]
    /\ UNCHANGED tracker

\* open(file_path, 'rb') and the entry of `results` (the JSON body, or
\* send_file, of the single-issue endpoint).
ReadFile(r) ==
    /\ run[r].pc = "read"
    /\ LET s == run[r]
           key == s.issue_keys[s.idx]
           entry == [issue_key |-> key, filename |-> <<key, FileExt(s)>>,
                     format |-> s.export_format, content |-> fs[s.file_path]]
       IN  run' = [run EXCEPT ![r] =
               IF s.file_path \notin DOMAIN fs THEN Raise(s, "read", "FileNotFoundError")
               ELSE IF s.entry = "api_single"
               THEN [Did(s, "read") EXCEPT !.pc = "done", !.faults = Append(s.faults, "none"),
                         !.results = <<entry>>,
                         !.response = [NoResponse EXCEPT !.status = 200, !.success = TRUE,
                                                         !.files = <<entry>>]]
               ELSE [Did(s, "read") EXCEPT !.pc = "remove", !.faults = Append(s.faults, "none"),
                         !.results = Append(s.results, entry)]]
    /\ UNCHANGED <<fs, tracker>>

\* os.remove(file_path) inside try/except: pass.  The file is gone, or
\* os.remove raised and the file stays; the loop goes on either way.
RemoveFile(r) ==
    /\ run[r].pc = "remove"
    /\ \E ok \in BOOLEAN :
        /\ fs' = IF ok THEN Remove(fs, run[r].file_path) ELSE fs
        /\ run' = [run EXCEPT ![r].pc = "loop",
                               ![r].kept = IF ok THEN run[r].kept
                                           ELSE run[r].kept \cup {run[r].file_path}]
    /\ UNCHANGED tracker

\* ------------------------------------------- credential test and search

\* POST /api/test-credentials up to its request: the URL is stripped of
\* trailing slashes before the three fields are checked.
TestCredentials(r) ==
    /\ run[r].pc = "idle"
    /\ \E url \in UrlVals, email \in EmailVals, token \in TokenVals :
        LET creds == [jira_url |-> Rstrip(url), email |-> email, api_token |-> token]
            s == [IdleRun EXCEPT !.entry = "api_test", !.creds = creds]
        IN  run' = [run EXCEPT ![r] =
                IF ~AllSet(creds)
                THEN [s EXCEPT !.pc = "done",
                               !.response = [NoResponse EXCEPT !.status = 200,
                                                               !.error = "Fyll i alla falt"]]
                ELSE [s EXCEPT !.pc = "test_get", !.base_url = creds.jira_url]]
    /\ UNCHANGED <<fs, tracker>>

\* GET {jira_url}/rest/api/3/myself and the answer built from its status;
\* a timeout or a refused connection is answered like a refusal.
TestRequest(r) ==
    /\ run[r].pc = "test_get"
    /\ \E st \in Statuses \cup {401, 403} :
        run' = [run EXCEPT ![r] =
            [run[r] EXCEPT !.pc = "done", !.http = TRUE,
                 !.response = IF st = 200
                              THEN [NoResponse EXCEPT !.status = 200, !.success = TRUE]
                              ELSE [NoResponse EXCEPT !.status = 200,
                                                      !.error = "Kunde inte ansluta"]]]
    /\ UNCHANGED <<fs, tracker>>

\* POST /api/search up to its first request: the credentials, then the
\* choice between issue_keys and jql.
SearchIssues(r) ==
    /\ run[r].pc = "idle"
    /\ \E url \in UrlVals, email \in EmailVals, token \in TokenVals,
          by \in {"issue_keys", "jql", "neither"}, keys \in SeqsUpTo(Keys, MaxKeys) :
        LET creds == [jira_url |-> Rstrip(url), email |-> email, api_token |-> token]
            s == [IdleRun EXCEPT !.entry = "api_search", !.creds = creds]
            no(e) == [s EXCEPT !.pc = "done",
                               !.response = [NoResponse EXCEPT !.status = 200, !.error = e]]
        IN  run' = [run EXCEPT ![r] =
                IF ~AllSet(creds) THEN no("Saknar Jira-credentials")
                ELSE IF by = "issue_keys"
                THEN [s EXCEPT !.pc = "search_keys", !.issue_keys = keys,
                               !.base_url = creds.jira_url]
                ELSE IF by = "jql"
                THEN [s EXCEPT !.pc = "search_jql", !.base_url = creds.jira_url]
                ELSE no("Ange issue_keys eller jql")]
    /\ UNCHANGED <<fs, tracker>>

\* The answer of the search endpoint for the issues it found.
SearchAnswer(found) ==
    [NoResponse EXCEPT !.status = 200, !.success = TRUE, !.issues = found,
                       !.count = Len(found)]

\* One key of the search by issue_keys: an issue that is not answered with
\* 200, or whose request raises, is left out; after the last key, the answer.
SearchKey(r) ==
    /\ run[r].pc = "search_keys"
    /\ \E st \in Statuses :
        LET s == run[r]
            i == s.idx + 1
        IN  run' = [run EXCEPT ![r] =
                IF s.idx = Len(s.issue_keys)
                THEN [s EXCEPT !.pc = "done", !.response = SearchAnswer(s.issues)]
                ELSE [s EXCEPT !.idx = i, !.http = TRUE,
                               !.issues = IF st = 200
                                          THEN Append(s.issues, s.issue_keys[i])
                                          ELSE s.issues]]
    /\ UNCHANGED <<fs, tracker>>

\* The search by jql: one request, whose issues are answered, or an error.
SearchJql(r) ==
    /\ run[r].pc = "search_jql"
    /\ \E st \in Statuses, found \in SeqsUpTo(tracker.match, MaxKeys) :
        run' = [run EXCEPT ![r] =
            [run[r] EXCEPT !.pc = "done", !.http = TRUE,
                 !.response = IF st = 200 THEN SearchAnswer(found)
                              ELSE [NoResponse EXCEPT !.status = 200,
                                        !.error = "JQL-sokning misslyckades"]]]
    /\ UNCHANGED <<fs, tracker>>

\* ------------------------------------------------------------- Normalizer

\* Strings the Normalizer looks into are sequences of characters.
UpperCase == <<"A", "B", "C", "D", "E", "F", "G", "H", "I", "J", "K", "L", "M", "N", "O", "P", "Q", "R", "S", "T", "U", "V", "W", "X", "Y", "Z">>
LowerCase == <<"a", "b", "c", "d", "e", "f", "g", "h", "i", "j", "k", "l", "m", "n", "o", "p", "q", "r", "s", "t", "u", "v", "w", "x", "y", "z">>

\* str.lower()
Lower(str) ==
    [i \in 1..Len(str) |->
        IF \E j \in 1..Len(UpperCase) : UpperCase[j] = str[i]
        THEN LowerCase[CHOOSE j \in 1..Len(UpperCase) : UpperCase[j] = str[i]]
        ELSE str[i]]

\* `needle in hay` on strings
Contains(hay, needle) ==
    \E i \in 1..(Len(hay) - Len(needle) + 1) : SubSeq(hay, i, i + Len(needle) - 1) = needle

\* str.startswith(prefix)
StartsWith(str, prefix) ==
    Len(prefix) <= Len(str) /\ SubSeq(str, 1, Len(prefix)) = prefix

CustomPrefix == <<"c", "u", "s", "t", "o", "m", "f", "i", "e", "l", "d", "_">>

\* skip_patterns of _get_all_custom_fields
SkipPatterns ==
    {<<"s", "t", "o", "r", "y", " ", "p", "o", "i", "n", "t">>,
     <<"s", "p", "r", "i", "n", "t">>,
     <<"e", "p", "i", "c">>,
     <<"r", "a", "n", "k">>,
     <<"f", "l", "a", "g", "g", "e", "d">>,
     <<"d", "e", "v", "e", "l", "o", "p", "m", "e", "n", "t">>,
     <<"t", "e", "a", "m">>,
     <<"c", "h", "a", "n", "g", "e", " ", "r", "e", "a", "s", "o", "n">>}

\* The search terms of story_points, of epic and of the sprints.
StoryTerms ==
    {<<"s", "t", "o", "r", "y", " ", "p", "o", "i", "n", "t", "s">>,
     <<"s", "t", "o", "r", "y", "p", "o", "i", "n", "t", "s">>,
     <<"s", "t", "o", "r", "y", " ", "p", "o", "i", "n", "t", " ", "e", "s", "t", "i", "m", "a", "t", "e">>}

EpicTerms ==
    {<<"e", "p", "i", "c", " ", "l", "i", "n", "k">>,
     <<"e", "p", "i", "c", " ", "n", "a", "m", "e">>,
     <<"p", "a", "r", "e", "n", "t", " ", "e", "p", "i", "c">>}

SprintTerm == <<"s", "p", "r", "i", "n", "t">>

\* The field ids of the raw issues, in the order of the raw field map.
FieldIds == <<<<"c", "u", "s", "t", "o", "m", "f", "i", "e", "l", "d", "_", "1">>,
             <<"c", "u", "s", "t", "o", "m", "f", "i", "e", "l", "d", "_", "2">>,
             <<"d", "u", "e", "d", "a", "t", "e">>>>

\* The names the tracker gives to custom fields.
FieldNameVals ==
    {<<"S", "t", "o", "r", "y", " ", "P", "o", "i", "n", "t", "s">>,
     <<"S", "t", "o", "r", "y", "p", "o", "i", "n", "t", "s">>,
     <<"S", "p", "r", "i", "n", "t">>,
     <<"E", "p", "i", "c", " ", "L", "i", "n", "k">>,
     <<"Q", "A", " ", "T", "e", "s", "t", "e", "r">>,
     <<"N", "o", "t", "e", "s">>,
     <<"T", "E", "A", "M">>}

\* A raw value: null, a string, a number, a list of strings or an object
\* with some of the keys value, name, displayName.
Val(k, str, items, value, name, displayName) ==
    [k |-> k, s |-> str, items |-> items,
     value |-> value, name |-> name, displayName |-> displayName]

\* The items of a list: a plain string, an object with some of the keys
\* name and state, a number.
StrItem(str) == [k |-> "str", name |-> str, state |-> Absent]
ObjItem(name, state) == [k |-> "obj", name |-> name, state |-> state]
NumItem(str) == [k |-> "num", name |-> str, state |-> Absent]

RawObjects ==
    {Val("obj", "", <<>>, v, n, d) :
        v \in {Absent, Null, "V"}, n \in {Absent, "N"}, d \in {Absent, "QA Team"}}

RawValues ==
    {Val("null", "", <<>>, Absent, Absent, Absent),
     Val("str", "", <<>>, Absent, Absent, Absent),
     Val("str", "x", <<>>, Absent, Absent, Absent),
     Val("num", "5", <<>>, Absent, Absent, Absent),
     Val("list", "", <<>>, Absent, Absent, Absent),
     Val("list", "", <<StrItem("a")>>, Absent, Absent, Absent),
     Val("list", "", <<ObjItem("S1", "active")>>, Absent, Absent, Absent),
     Val("list", "", <<ObjItem(Absent, Absent), StrItem("a")>>, Absent, Absent, Absent),
     Val("list", "", <<NumItem("7")>>, Absent, Absent, Absent)} \cup RawObjects

\* Python's None as a value.
None == Val("null", "", <<>>, Absent, Absent, Absent)

\* A string as a value.
Str(str) == Val("str", str, <<>>, Absent, Absent, Absent)

\* The raw user objects: null, or an object with some of its keys.
\* avatarUrls is null, empty, without a 48x48 entry, or with one.
RawUsers ==
    {NoUser} \cup
    [null : {FALSE}, accountId : {Absent, "id"}, displayName : {Absent, Null, "Ann"},
     emailAddress : {Absent, Null, "a@x"},
     avatarUrls : {Absent, Null, "{}", "no48", "url"}]

\* The raw parent objects: null, or an object with some of key and
\* fields.summary.
RawParents ==
    {NoParent} \cup [null : {FALSE}, key : {Absent, "P-1"}, summary : {Absent, "S"}]

\* Python's truth of a raw object: not None and not empty.
UserTruthy(user) ==
    /\ ~user.null
    /\ \/ user.accountId # Absent \/ user.displayName # Absent
       \/ user.emailAddress # Absent \/ user.avatarUrls # Absent

ParentTruthy(parent) == ~parent.null /\ (parent.key # Absent \/ parent.summary # Absent)

\* dict.get(key): None for a key the object does not have.
DictGet(v) == IF v = Absent THEN Null ELSE v

\* dict.get(key, default)
GetOr(v, default) == IF v = Absent THEN default ELSE v

\* _parse_user
ParseUser(user) ==
    IF ~UserTruthy(user)
    THEN [none |-> TRUE, name |-> Null, email |-> Null, avatar_url |-> Null]
    ELSE [none |-> FALSE,
          name |-> GetOr(user.displayName, "Unknown"),
          email |-> DictGet(user.emailAddress),
          avatar_url |-> IF user.avatarUrls = "url" THEN "url" ELSE Null]

\* The parent of _parse_issue: {'key': ..., 'summary': ...} if parent else None
ParseParent(parent) ==
    IF ~ParentTruthy(parent)
    THEN [none |-> TRUE, key |-> Null, summary |-> Null]
    ELSE [none |-> FALSE, key |-> DictGet(parent.key), summary |-> GetOr(parent.summary, "")]

\* `field_id in fields` and fields[field_id] on the raw field map, a
\* sequence of [id, value] in the order of the map.
HasField(fields, id) == \E i \in 1..Len(fields) : fields[i].id = id

FieldValue(fields, id) == fields[CHOOSE i \in 1..Len(fields) : fields[i].id = id].value

\* field_names.get(field_id, field_id) on the name table, a sequence of
\* [id, name] in the order of the table.
NameOf(names, id) ==
    IF \E i \in 1..Len(names) : names[i].id = id
    THEN names[CHOOSE i \in 1..Len(names) : names[i].id = id].name
    ELSE id

\* Python's `a or b` on the values of an object's keys.
Truthy(x) == x \notin {Absent, Null, ""}

\* The last such field of the name table instead of the first.
FindCustomFieldLast(fields, names, terms) ==
    LET hit(i) == /\ HasField(fields, names[i].id)
                  /\ FieldValue(fields, names[i].id).k # "null"
                  /\ \E t \in terms : Contains(Lower(names[i].name), Lower(t))
        hits == {i \in 1..Len(names) : hit(i)}
    IN  IF hits = {} THEN 0 ELSE CHOOSE i \in hits : \A j \in hits : j <= i

\* _find_custom_field: the position in the name table of the field it
\* returns, the first whose id is in fields with a value that is not None
\* and whose name contains one of the terms; 0 when there is none.
FindCustomFieldAt(fields, names, terms) ==
    LET hit(i) == /\ HasField(fields, names[i].id)
                  /\ FieldValue(fields, names[i].id).k # "null"
                  /\ \E t \in terms : Contains(Lower(names[i].name), Lower(t))
        hits == {i \in 1..Len(names) : hit(i)}
    IN  IF hits = {} THEN 0 ELSE CHOOSE i \in hits : \A j \in hits : i <= j

\* _find_custom_field: of an object its value, else its name, else the
\* object; any other value as it is; None when no field matches.
FindCustomField(fields, names, terms) ==
    LET at == FindCustomFieldAt(fields, names, terms)
        v == FieldValue(fields, names[at].id)
    IN  IF at = 0 THEN None
        ELSE IF v.k # "obj" THEN v
        ELSE IF Truthy(v.value) THEN Str(v.value)
        ELSE IF Truthy(v.name) THEN Str(v.name)
        ELSE v

\* _extract_sprints: the positions in the name table of the fields whose
\* items it appends: the name contains 'sprint', the value is a list.
SprintsAt(fields, names) ==
    {i \in 1..Len(names) :
        /\ Contains(Lower(names[i].name), SprintTerm)
        /\ HasField(fields, names[i].id)
        /\ FieldValue(fields, names[i].id).k = "list"}

\* _extract_sprints: the items it appends an entry for: isinstance(item,
\* dict), isinstance(item, str).
KeepsItem(item) == item.k \in {"obj", "str"}

\* _extract_sprints: the entry of an item: name and state of an object
\* ('Unknown', 'unknown' for a key it has not), the string as name.
SprintOf(item) ==
    IF item.k = "obj"
    THEN [name |-> GetOr(item.name, "Unknown"), state |-> GetOr(item.state, "unknown")]
    ELSE [name |-> item.name, state |-> "unknown"]

\* The sprints of the first sprint field only.
ExtractSprintsFirst(fields, names) ==
    LET at == SprintsAt(fields, names)
        first == CHOOSE i \in at : \A j \in at : i <= j
        kept == SelectSeq(FieldValue(fields, names[first].id).items, KeepsItem)
    IN  IF at = {} THEN <<>> ELSE [j \in 1..Len(kept) |-> SprintOf(kept[j])]

\* _extract_sprints: the entries of the items of these lists, field after
\* field in the order of the name table.
ExtractSprints(fields, names) ==
    LET F[i \in 0..Len(names)] ==
            IF i = 0 THEN <<>>
            ELSE IF i \in SprintsAt(fields, names)
            THEN LET kept == SelectSeq(FieldValue(fields, names[i].id).items, KeepsItem)
                 IN  F[i - 1] \o [j \in 1..Len(kept) |-> SprintOf(kept[j])]
            ELSE F[i - 1]
    IN  F[Len(names)]

\* An object read with `a.get('value') or a.get('name') or ...`.
ObjectScalarOr(v) ==
    IF Truthy(v.value) THEN Str(v.value)
    ELSE IF Truthy(v.name) THEN Str(v.name)
    ELSE IF Truthy(v.displayName) THEN Str(v.displayName)
    ELSE Str("{}")

\* _get_all_custom_fields on an object: value['value'] if 'value' in
\* value, elif 'name', elif 'displayName', else str(value).  (The raw
\* objects carry no 'content'.)
ObjectScalar(v) ==
    IF v.value # Absent THEN (IF v.value = Null THEN None ELSE Str(v.value))
    ELSE IF v.name # Absent THEN Str(v.name)
    ELSE IF v.displayName # Absent THEN Str(v.displayName)
    ELSE Str("{}")

\* What _get_all_custom_fields stores for a raw value.
CustomValue(v) == IF v.k = "obj" THEN ObjectScalar(v) ELSE v

\* _get_all_custom_fields: the raw fields it stores: custom, not None,
\* the name without skip pattern, a list not empty.
CustomKept(fields, names, i) ==
    /\ StartsWith(fields[i].id, CustomPrefix)
    /\ fields[i].value.k # "null"
    /\ ~\E pat \in SkipPatterns : Contains(Lower(NameOf(names, fields[i].id)), pat)
    /\ fields[i].value.k = "list" => fields[i].value.items # <<>>

\* _get_all_custom_fields: name |-> the value stored and the id of the raw
\* field it was taken from; of two fields with one name the later stays.
GetAllCustomFields(fields, names) ==
    LET kept == {i \in 1..Len(fields) : CustomKept(fields, names, i)}
        last(n) == CHOOSE i \in kept :
                        /\ NameOf(names, fields[i].id) = n
                        /\ \A j \in kept : NameOf(names, fields[j].id) = n => j <= i
    IN  [n \in {NameOf(names, fields[i].id) : i \in kept} |->
            [id |-> fields[last(n)].id, value |-> CustomValue(fields[last(n)].value)]]

\* _parse_issue, the relations and the custom fields of the record.
ParseIssueData(raw) ==
    [assignee |-> ParseUser(raw.assignee),
     reporter |-> ParseUser(raw.reporter),
     parent |-> ParseParent(raw.parent),
     story_points |-> FindCustomField(raw.fields, raw.names, StoryTerms),
     epic |-> FindCustomField(raw.fields, raw.names, EpicTerms),
     sprints |-> ExtractSprints(raw.fields, raw.names),
     custom_fields |-> GetAllCustomFields(raw.fields, raw.names)]

\* A raw issue with both users, without parent and without custom field.
BaseRaw ==
    [assignee |-> [null |-> FALSE, accountId |-> "id", displayName |-> "Ann",
                   emailAddress |-> "a@x", avatarUrls |-> "url"],
     reporter |-> [null |-> FALSE, accountId |-> "id", displayName |-> "Ann",
                   emailAddress |-> "a@x", avatarUrls |-> "url"],
     parent |-> NoParent,
     fields |-> <<>>, names |-> <<>>]

\* A raw value for a field, or no entry for it.
ValueOpts == {[here |-> TRUE, v |-> x] : x \in RawValues} \cup {[here |-> FALSE, v |-> None]}

\* A name for a field, or no entry for it.
NameOpts == {[here |-> TRUE, v |-> x] : x \in FieldNameVals} \cup {[here |-> FALSE, v |-> <<>>]}

\* The entries of a map that are there, in their order.
Entries(opts) ==
    LET e == SelectSeq(opts, LAMBDA x : x.here)
    IN  [i \in 1..Len(e) |-> [id |-> e[i].id, v |-> e[i].v]]

\* The few raw values and names of the second custom field.
ValueOpts2 ==
    {x \in ValueOpts : x.v \in {None, Str("x"), Val("obj", "", <<>>, Absent, "N", Absent),
                                 Val("list", "", <<ObjItem("S1", "active")>>, Absent, Absent, Absent)}}

NameOpts2 ==
    {x \in NameOpts : x.v \in {<<>>, <<"N", "o", "t", "e", "s">>, <<"S", "p", "r", "i", "n", "t">>,
                               <<"S", "t", "o", "r", "y", " ", "P", "o", "i", "n", "t", "s">>}}

\* The raw field maps: each custom field absent or with a raw value, and a
\* field of the tracker's own.
RawFields ==
    {LET e == Entries(<<[id |-> FieldIds[1], here |-> a.here, v |-> a.v],
                        [id |-> FieldIds[2], here |-> b.here, v |-> b.v],
                        [id |-> FieldIds[3], here |-> TRUE, v |-> Str("d")]>>)
     IN  [i \in 1..Len(e) |-> [id |-> e[i].id, value |-> e[i].v]] :
     a \in ValueOpts, b \in ValueOpts2}

\* The name tables: each custom field without name or with one.
RawNames ==
    {LET e == Entries(<<[id |-> FieldIds[1], here |-> a.here, v |-> a.v],
                        [id |-> FieldIds[2], here |-> b.here, v |-> b.v]>>)
     IN  [i \in 1..Len(e) |-> [id |-> e[i].id, name |-> e[i].v]] :
     a \in NameOpts, b \in NameOpts2}

\* The raw issues: the base issue with one of its parts replaced.
RawIssues ==
    {[BaseRaw EXCEPT !.assignee = u] : u \in RawUsers}
    \cup {[BaseRaw EXCEPT !.reporter = u] : u \in RawUsers}
    \cup {[BaseRaw EXCEPT !.parent = q] : q \in RawParents}
    \cup {[BaseRaw EXCEPT !.fields = f, !.names = n] : f \in RawFields, n \in RawNames}

\* _parse_issue on a raw issue.
Normalize(r) ==
    /\ run[r].pc = "idle"
    /\ \E raw \in RawIssues :
        run' = [run EXCEPT ![r] =
            [IdleRun EXCEPT !.entry = "parse", !.pc = "done", !.raw = raw,
                            !.record = ParseIssueData(raw)]]
    /\ UNCHANGED <<fs, tracker>>

\* ------------------------------------------------------------- rich text

\* A node of a rich-text tree: its type, its 'text' ('' without one), the
\* text or url of its 'attrs' if it has one, its level, whether it has the
\* key 'content', and its content.
Node(type, text, attrs, level, has, content) ==
    [type |-> type, text |-> text, attrs |-> attrs, level |-> level,
     has |-> has, content |-> content]

NoAttrs == [here |-> FALSE, v |-> <<>>]

Leaf(type, text, attrs) == Node(type, text, attrs, 1, FALSE, <<>>)

\* The nodes without content: texts, a line break, a mention without attrs,
\* an emoji, a card, and a rule, which the walk has no branch for.
Leaves ==
    {Leaf("text", <<"a">>, NoAttrs), Leaf("text", <<"b", " ">>, NoAttrs),
     Leaf("hardBreak", <<>>, NoAttrs), Leaf("mention", <<>>, NoAttrs),
     Leaf("emoji", <<>>, [here |-> TRUE, v |-> <<":", ")">>]),
     Leaf("inlineCard", <<>>, [here |-> TRUE, v |-> <<"u">>]),
     Leaf("rule", <<>>, NoAttrs)}

\* The types of the nodes with content: those the walk has a branch for, and
\* panel and caption, which it has none for.
InnerTypes ==
    {"paragraph", "heading", "bulletList", "orderedList", "listItem", "codeBlock",
     "blockquote", "mediaSingle", "panel", "caption"}

\* The nodes with one of these contents, a heading at level 2 as well.
Inner(contents) ==
    {Node(t, <<>>, NoAttrs, 1, TRUE, c) : t \in InnerTypes, c \in contents}
    \cup {Node("heading", <<>>, NoAttrs, 2, TRUE, c) : c \in contents}

\* The contents of leaves: none, one, or two of the texts and the break.
LeafContents ==
    {<<>>} \cup {<<n>> : n \in Leaves}
    \cup {<<n, m>> : n, m \in {x \in Leaves : x.type \in {"text", "hardBreak"}}}

\* The content lists the walk is given: a leaf, a node over leaves, a node
\* over such a node.
ContentLists ==
    LeafContents
    \cup {<<n>> : n \in Inner(LeafContents)}
    \cup {<<n>> : n \in Inner({<<m>> : m \in Inner(LeafContents)})}

\* str.strip()
RECURSIVE PyStrip(_)
PyStrip(str) ==
    IF str = <<>> THEN <<>>
    ELSE IF Head(str) \in {" ", "\n"} THEN PyStrip(Tail(str))
    ELSE IF str[Len(str)] \in {" ", "\n"} THEN PyStrip(SubSeq(str, 1, Len(str) - 1))
    ELSE str

\* str(i) of the position of an item of an ordered list
ItemNumber(i) == <<<<"0", "1", "2", "3", "4", "5", "6", "7", "8", "9">>[i + 1]>>

\* The three grave accents around a code block, "grave" for the character.
Fence == <<"grave", "grave", "grave">>

\* _parse_adf_content: the text of a content list, node after node.
RECURSIVE ParseAdfContent(_)
ParseAdfContent(content_list) ==
    LET Joined(parts) ==
            LET J[i \in 0..Len(parts)] == IF i = 0 THEN <<>> ELSE J[i - 1] \o parts[i]
            IN  J[Len(parts)]
        Of(node) ==
            CASE node.type = "text" -> node.text
              [] node.type = "paragraph" -> ParseAdfContent(node.content) \o <<"\n">>
              [] node.type = "heading" ->
                    <<"\n">> \o [i \in 1..node.level |-> "#"] \o <<" ">>
                        \o ParseAdfContent(node.content) \o <<"\n">>
              [] node.type = "bulletList" ->
                    Joined([i \in 1..Len(node.content) |->
                        <<"*", " ">> \o PyStrip(ParseAdfContent(node.content[i].content))
                            \o <<"\n">>])
              [] node.type = "orderedList" ->
                    Joined([i \in 1..Len(node.content) |->
                        ItemNumber(i) \o <<".", " ">>
                            \o PyStrip(ParseAdfContent(node.content[i].content)) \o <<"\n">>])
              [] node.type = "listItem" -> ParseAdfContent(node.content)
              [] node.type = "codeBlock" ->
                    <<"\n">> \o Fence \o <<"\n">> \o ParseAdfContent(node.content)
                        \o <<"\n">> \o Fence \o <<"\n">>
              [] node.type = "blockquote" -> <<">", " ">> \o ParseAdfContent(node.content)
              [] node.type = "hardBreak" -> <<"\n">>
              [] node.type = "mention" ->
                    <<"@">> \o (IF node.attrs.here THEN node.attrs.v ELSE <<"u", "s", "e", "r">>)
              [] node.type = "emoji" -> node.attrs.v
              [] node.type \in {"inlineCard", "blockCard"} -> <<"[">> \o node.attrs.v \o <<"]">>
              [] node.type \in {"mediaGroup", "mediaSingle"} ->
                    <<"[", "M", "e", "d", "i", "a", "]">>
              [] OTHER -> IF node.has THEN ParseAdfContent(node.content) ELSE <<>>
    IN  Joined([i \in 1..Len(content_list) |-> Of(content_list[i])])

\* _extract_text on a document {'type': 'doc', 'content': ...}
ExtractText(r) ==
    /\ run[r].pc = "idle"
    /\ \E content \in ContentLists :
        run' = [run EXCEPT ![r] =
            [IdleRun EXCEPT !.entry = "text", !.pc = "done", !.adf = content,
                            !.text = ParseAdfContent(content)]]
    /\ UNCHANGED <<fs, tracker>>

\* -------------------------------------------------------------- renderers

\* image_extensions of the renderers and of create_png_summary
ImageExtensions ==
    {<<".", "p", "n", "g">>, <<".", "j", "p", "g">>, <<".", "j", "p", "e", "g">>,
     <<".", "g", "i", "f">>, <<".", "b", "m", "p">>, <<".", "w", "e", "b", "p">>}

\* The filenames of the attachments a renderer is given.
AttNames ==
    {<<"a", ".", "p", "n", "g">>, <<"b", ".", "P", "N", "G">>,
     <<"c", ".", "t", "x", "t">>, <<".", "p", "n", "g">>}

\* What there is on disk for an attachment: it was not downloaded, its
\* path is in attachment_paths and the file is gone, the file is there, or
\* the file is there and no image can be read from it.
LocalStates == {"none", "gone", "file", "broken"}

\* os.path.splitext(filename)[1]: from the last dot, when a character that
\* is not a dot stands before it.
Splitext(name) ==
    LET dots == {i \in 1..Len(name) : name[i] = "."}
        last == CHOOSE i \in dots : \A j \in dots : j <= i
    IN  IF dots # {} /\ \E j \in 1..(last - 1) : name[j] # "."
        THEN SubSeq(name, last, Len(name))
        ELSE <<>>

\* os.path.basename(path)
Basename(path) == path[Len(path)]

\* path_map.get(filename), path_map built from attachment_paths by basename.
PathMap(paths, filename) ==
    LET hits == {i \in 1..Len(paths) : Basename(paths[i]) = filename}
    IN  IF hits = {} THEN NoPath ELSE paths[CHOOSE i \in hits : \A j \in hits : j <= i]

\* file_ext in image_extensions
IsImage(filename) == Lower(Splitext(filename)) \in ImageExtensions

\* _build_attachments_section: the image of attachment i is appended.
PdfInlines(doc, i) ==
    LET filename == doc.attachments[i]
        filepath == PathMap(doc.attachment_paths, filename)
    IN  /\ IsImage(filename) /\ filepath # NoPath /\ filepath \in doc.files
        /\ filepath \in doc.readable

\* _add_attachments_section: doc.add_picture did not raise.
WordInlines(doc, i) ==
    LET filename == doc.attachments[i]
        filepath == PathMap(doc.attachment_paths, filename)
    IN  /\ IsImage(filename) /\ filepath # NoPath /\ filepath \in doc.files
        /\ filepath \in doc.readable

\* _build_markdown: the image link of attachment i is written.
MdInlines(doc, i) == IsImage(doc.attachments[i])

\* A section that is emitted when its part of the record is not empty.
Opt(present, name) == IF present THEN <<name>> ELSE <<>>

\* generate_pdf: the sections of the story, in its order.
PdfSections(doc) ==
    <<"header", "title", "status", "details">>
    \o Opt(doc.description, "description")
    \o Opt(doc.custom_fields, "custom_fields")
    \o Opt(doc.attachments # <<>>, "attachments")
    \o Opt(doc.subtasks, "subtasks")
    \o Opt(doc.links, "links")
    \o Opt(doc.comments, "comments")
    \o <<"footer">>

\* generate_docx: the sections added to the document, in its order.
WordSections(doc) ==
    <<"header", "title", "status", "details">>
    \o Opt(doc.description, "description")
    \o Opt(doc.custom_fields, "custom_fields")
    \o Opt(doc.attachments # <<>>, "attachments")
    \o Opt(doc.subtasks, "subtasks")
    \o Opt(doc.links, "links")
    \o Opt(doc.comments, "comments")
    \o <<"footer">>

\* _build_markdown: the front matter, the heading, the overview table
\* (type, status, priority, then the details), and the sections.
MdSections(doc) ==
    <<"header", "title", "status", "details">>
    \o Opt(doc.description, "description")
    \o Opt(doc.custom_fields, "custom_fields")
    \o Opt(doc.labels, "labels")
    \o Opt(doc.components, "components")
    \o Opt(doc.subtasks, "subtasks")
    \o Opt(doc.links, "links")
    \o Opt(doc.attachments # <<>>, "attachments")
    \o Opt(doc.comments, "comments")
    \o <<"footer">>

\* The formats with a renderer of sections.
DocFormats == {"pdf", "docx", "md"}

\* An issue with every section, without attachment.
FullDoc ==
    [NoDoc EXCEPT !.description = TRUE, !.custom_fields = TRUE, !.labels = TRUE,
                  !.components = TRUE, !.subtasks = TRUE, !.links = TRUE, !.comments = TRUE]

\* The path download_attachment gave to an attachment.
LocalPath(filename) == <<"attachments", filename>>

\* The issue with attachments atts, which are on disk as local says.
WithAttachments(doc, atts, local) ==
    LET got == SelectSeq(atts, LAMBDA a : local[a] # "none")
    IN  [doc EXCEPT !.attachments = atts,
                    !.attachment_paths = [i \in 1..Len(got) |-> LocalPath(got[i])],
                    !.files = {LocalPath(a) : a \in {b \in AttNames : local[b] \in {"file", "broken"}}},
                    !.readable = {LocalPath(a) : a \in {b \in AttNames : local[b] = "file"}}]

\* The issues a renderer is given: every choice of sections with one
\* image attachment, and every list of attachments with every section.
DocInputs(n) ==
    {WithAttachments([NoDoc EXCEPT !.description = f[1], !.custom_fields = f[2],
                                   !.labels = f[3], !.components = f[3],
                                   !.subtasks = f[4], !.links = f[5], !.comments = f[6]],
                     atts, [a \in AttNames |-> "file"]) :
        f \in [1..6 -> BOOLEAN], atts \in {<<>>, <<<<"a", ".", "p", "n", "g">>>>}}
    \cup {WithAttachments(FullDoc, atts, [a \in AttNames |-> IF \E i \in 1..Len(atts) : atts[i] = a
                                                           THEN local[a] ELSE "none"]) :
            atts \in NoDupSeqs(AttNames, n), local \in [AttNames -> LocalStates]}

\* generate_pdf / generate_docx / generate_markdown on an issue: the
\* sections of the document and the attachments shown as images in it.
RenderDocument(r, n) ==
    /\ run[r].pc = "idle"
    /\ \E fmt \in DocFormats, doc \in DocInputs(n) :
        LET atts == 1..Len(doc.attachments)
        IN  run' = [run EXCEPT ![r] =
                [IdleRun EXCEPT !.entry = "render", !.pc = "done",
                    !.doc = [doc EXCEPT
                        !.format = fmt,
                        !.sections = CASE fmt = "pdf" -> PdfSections(doc)
                                       [] fmt = "docx" -> WordSections(doc)
                                       [] OTHER -> MdSections(doc),
                        !.inlined = CASE fmt = "pdf" -> {i \in atts : PdfInlines(doc, i)}
                                      [] fmt = "docx" -> {i \in atts : WordInlines(doc, i)}
                                      [] OTHER -> {i \in atts : MdInlines(doc, i)}]]]
    /\ UNCHANGED <<fs, tracker>>

\* Lengths are fractions of a point: reportlab's mm is 72 / 25.4 = 360 / 127
\* points, Inches(1) is 72 points, and a pixel of the source is a point.
PointDen == 127
Mm == 360
Inch == 72 * PointDen

\* max_width and max_height of _create_image, in points / 127
PdfMaxWidth == 160 * Mm
PdfMaxHeight == 200 * Mm

\* Inches(5.5) of doc.add_picture, in points / 127
WordWidth == (55 * Inch) \div 10

\* max_size of create_png_summary, in pixels
PngMaxWidth == 1920
PngMaxHeight == 1080

\* The sizes of the source images, in pixels.
ImageWidths == {1, 100, 300, 2000, 4000}
ImageHeights == {1, 80, 700, 3000}

\* _create_image: ratio = min(max_width / w, max_height / h, 1.0) and the
\* size w * ratio, h * ratio.
CreateImage(w, h) ==
    LET width_ratio == Frac(PdfMaxWidth, PointDen * w)
        height_ratio == Frac(PdfMaxHeight, PointDen * h)
        least == IF Leq(width_ratio, height_ratio) THEN width_ratio ELSE height_ratio
        ratio == IF Less(least, Frac(1, 1)) THEN least ELSE Frac(1, 1)
    IN  [w |-> Times(w, ratio), h |-> Times(h, ratio)]

\* doc.add_picture(filepath, width=Inches(5.5)): the width given, the
\* height scaled by width / native width.
AddPicture(w, h) ==
    [w |-> Frac(WordWidth, PointDen), h |-> Times(h, Frac(WordWidth, PointDen * w))]

Abs(x) == IF x < 0 THEN 0 - x ELSE x

\* round_aspect of Image.thumbnail: of floor and ceil the one with the
\* least key (the floor when they tie), and at least 1.
RoundAspect(floor, ceil, keyFloor, keyCeil) ==
    LET n == IF keyCeil < keyFloor THEN ceil ELSE floor
    IN  IF n < 1 THEN 1 ELSE n

CeilDiv(a, b) == (a + b - 1) \div b

\* img.thumbnail((1920, 1080)): nothing for an image that fits; else the
\* largest size of the source's aspect ratio within the maximum.
Thumbnail(w, h) ==
    IF PngMaxWidth >= w /\ PngMaxHeight >= h THEN [w |-> Frac(w, 1), h |-> Frac(h, 1)]
    ELSE IF PngMaxWidth * h >= PngMaxHeight * w
    THEN LET f == (PngMaxHeight * w) \div h
             c == CeilDiv(PngMaxHeight * w, h)
         IN  [w |-> Frac(RoundAspect(f, c, Abs(w * PngMaxHeight - f * h),
                                           Abs(w * PngMaxHeight - c * h)), 1),
              h |-> Frac(PngMaxHeight, 1)]
    ELSE LET f == (PngMaxWidth * h) \div w
             c == CeilDiv(PngMaxWidth * h, w)
         IN  [w |-> Frac(PngMaxWidth, 1),
              h |-> Frac(RoundAspect(f, c,
                            IF f = 0 THEN 0 ELSE Abs(w * f - PngMaxWidth * h) * c,
                            Abs(w * c - PngMaxWidth * h) * f), 1)]

\* The renderers that size an image.
ImageRenderers == {"pdf", "docx", "png"}

\* An image of the source size shown by a renderer.
ScaleImage(r) ==
    /\ run[r].pc = "idle"
    /\ \E rd \in ImageRenderers, w \in ImageWidths, h \in ImageHeights :
        run' = [run EXCEPT ![r] =
            [IdleRun EXCEPT !.entry = "image", !.pc = "done",
                !.image = [renderer |-> rd, src |-> [w |-> w, h |-> h],
                           out |-> CASE rd = "pdf" -> CreateImage(w, h)
                                     [] rd = "docx" -> AddPicture(w, h)
                                     [] OTHER -> Thumbnail(w, h)]]]
    /\ UNCHANGED <<fs, tracker>>

\* A summary that takes the last image among the downloaded files.
PngLast(doc) ==
    LET hits == {k \in 1..Len(doc.attachment_paths) :
                    /\ IsImage(Basename(doc.attachment_paths[k]))
                    /\ doc.attachment_paths[k] \in doc.files}
    IN  IF hits = {} THEN 0 ELSE CHOOSE k \in hits : \A j \in hits : j <= k

\* create_png_summary: first_image, the place in attachment_paths of the
\* first path with an image extension that exists; 0 for None.
PngFirst(doc) ==
    LET hits == {k \in 1..Len(doc.attachment_paths) :
                    /\ IsImage(Basename(doc.attachment_paths[k]))
                    /\ doc.attachment_paths[k] \in doc.files}
    IN  IF hits = {} THEN 0 ELSE CHOOSE k \in hits : \A j \in hits : k <= j

\* create_png_summary on an issue: the first image converted and saved, a
\* blank canvas when there is none; PILImage.open raises on a file that
\* holds no image.
RenderPng(r, n) ==
    /\ run[r].pc = "idle"
    /\ \E doc \in DocInputs(n) :
        LET k == PngFirst(doc)
            s == [IdleRun EXCEPT !.entry = "png", !.pc = "done"]
        IN  run' = [run EXCEPT ![r] =
                IF k = 0
                THEN [s EXCEPT !.doc = [doc EXCEPT !.format = "png", !.sections = <<"blank">>]]
                ELSE IF doc.attachment_paths[k] \notin doc.readable
                THEN [s EXCEPT !.doc = [doc EXCEPT !.format = "png"],
                               !.raised = "UnidentifiedImageError"]
                ELSE [s EXCEPT !.doc = [doc EXCEPT !.format = "png", !.sections = <<"image">>,
                                                   !.inlined = {k}]]]
    /\ UNCHANGED <<fs, tracker>>

\* body[:1000] of the comment sections
CommentCap == 1000

\* The lengths of the comment bodies, their markup cleaned.
CommentLengths == {0, 1, CommentCap - 1, CommentCap, CommentCap + 1, 2 * CommentCap}

\* The characters a renderer writes of a comment body of n characters:
\* body[:1000] in the PDF and in the Word renderer, the whole of
\* _clean_text(comment['body']) in the Markdown renderer.
CommentEmitted(fmt, n) == IF fmt \in {"pdf", "docx"} THEN Min(n, CommentCap) ELSE n

\* A comment of the comment section of a renderer.
RenderComment(r) ==
    /\ run[r].pc = "idle"
    /\ \E fmt \in DocFormats, n \in CommentLengths :
        run' = [run EXCEPT ![r] =
            [IdleRun EXCEPT !.entry = "comment", !.pc = "done",
                !.comment = [format |-> fmt, len |-> n, out |-> CommentEmitted(fmt, n)]]]
    /\ UNCHANGED <<fs, tracker>>

\* ---------------------------------------------------------- specifications

\* The result caps a query on its own is run with.
QueryCaps == {0, 1, PageSize, MaxResults}

\* One run at a time: a request of the server or an invocation of a script.
Next ==
    \/ ExportIssues(1, Bodies(MaxKeys))
    \/ ExportSingleIssue(1)
    \/ TestCredentials(1)
    \/ TestRequest(1)
    \/ SearchIssues(1)
    \/ SearchKey(1)
    \/ SearchJql(1)
    \/ ExportFromCsv(1)
    \/ Main(1)
    \/ MainQuery(1, 0..MaxKeys)
    \/ FetchPage(1, MaxPages)
    \/ NextIssue(1)
    \/ GetIssue(1)
    \/ DownloadAttachment(1)
    \/ Render(1)
    \/ ReadFile(1)
    \/ RemoveFile(1)

Spec == Init /\ [][Next]_vars

\* The same runs on a tracker whose issue holds several attachments with
\* one filename.
InitSameName ==
    /\ run = [r \in Reqs |-> IdleRun]
    /\ fs = NoFiles
    /\ tracker = [att |-> [k \in Keys |-> IF k = "A-1" THEN MaxAtt ELSE 0], match |-> Keys,
                  names |-> [i \in 1..Len(FileNames) |-> FileNames[1]]]

SpecSameName == InitSameName /\ [][Next]_vars

\* A query on its own, with result caps around the page size; the tracker
\* holds one matching issue, so that the list collected is told by its length.
InitFetch ==
    /\ run = [r \in Reqs |-> IdleRun]
    /\ fs = NoFiles
    /\ tracker = [att |-> [k \in Keys |-> 0], match |-> {"A-1"}, names |-> FileNames]

NextFetch ==
    \/ MainQuery(1, QueryCaps)
    \/ FetchPage(1, MaxPages)

SpecFetch == InitFetch /\ [][NextFetch]_vars

\* Two requests handled by the threads of one server process.
NextConc ==
    \E r \in Reqs :
        \/ ExportIssues(r, ConcBodies(MaxConcKeys))
        \/ NextIssue(r)
        \/ GetIssue(r)
        \/ DownloadAttachment(r)
        \/ Render(r)
        \/ ReadFile(r)
        \/ RemoveFile(r)

SpecConc == Init /\ [][NextConc]_vars

\* A batch request that names an issue in lower case.
NextKeys ==
    \/ ExportIssues(1, LowerBodies)
    \/ NextIssue(1)
    \/ GetIssue(1)
    \/ DownloadAttachment(1)
    \/ Render(1)
    \/ ReadFile(1)
    \/ RemoveFile(1)

SpecKeys == Init /\ [][NextKeys]_vars

\* The Normalizer on its own.
NextNorm ==
    \/ Normalize(1)
    \/ ExtractText(1)

SpecNorm == Init /\ [][NextNorm]_vars

\* The renderers on their own.
NextRender ==
    \/ RenderDocument(1, MaxRenderAtt)
    \/ ScaleImage(1)
    \/ RenderComment(1)
    \/ RenderPng(1, MaxRenderAtt)

SpecRender == Init /\ [][NextRender]_vars

\* ------------------------------------------------------------ properties

\* The issue keys of a list of result or error entries.
KeysOf(entries) == [i \in 1..Len(entries) |-> entries[i].issue_key]

\* The keys whose pipeline ended without (ok) or with (~ok) an exception,
\* in the order of the request.
Pick(keys, faults, ok) ==
    LET F[i \in 0..Len(faults)] ==
            IF i = 0 THEN <<>>
            ELSE IF (faults[i] = "none") = ok THEN Append(F[i - 1], keys[i])
            ELSE F[i - 1]
    IN  F[Len(faults)]

\* The entry points that loop over a list of issues.
BatchEntries == {"api_export", "csv", "cli", "cli_multi"}

\* The run went through its loop to the end.
Completed(s) == s.pc = "done" /\ s.response.error = "" /\ s.raised = ""

\* C1: the answer of a POST /api/export that passed validation has total =
\* the number of keys requested, exported = the length of files, failed =
\* the length of errors, exported + failed = total, and every occurrence of
\* a key is in exactly one of files and errors.
C1_ExportCounts ==
    \A r \in Reqs :
        LET s == run[r]
            a == s.response
        IN  (s.entry = "api_export" /\ s.pc = "done" /\ a.status = 200) =>
                /\ a.total = Len(s.issue_keys)
                /\ a.exported = Len(a.files)
                /\ a.failed = Len(a.errors)
                /\ a.exported + a.failed = a.total
                /\ Len(s.faults) = Len(s.issue_keys)
                /\ KeysOf(a.files) = Pick(s.issue_keys, s.faults, TRUE)
                /\ KeysOf(a.errors) = Pick(s.issue_keys, s.faults, FALSE)

\* A request of three keys, one of them twice, with files and errors.
C1_Witness ==
    LET s == run[1]
    IN  /\ s.entry = "api_export" /\ s.pc = "done" /\ s.response.status = 200
        /\ s.issue_keys = <<"A-1", "B-2", "A-1">>
        /\ s.response.exported = 2 /\ s.response.failed = 1

\* C2: in a batch (endpoint, CSV script, command line) an exception of the
\* fetch or of the renderer ends only the issue it was raised for: the loop
\* goes on with the next key, a finished batch went through every key, the
\* failing keys and no others are in errors, the others are exported.
C2_FailureIsolated ==
    \A r \in Reqs :
        LET s == run[r]
        IN  s.entry \in BatchEntries =>
                /\ KeysOf(s.errors) = Pick(s.issue_keys, s.faults, FALSE)
                /\ KeysOf(s.results) = Pick(s.issue_keys, s.faults, TRUE)
                /\ Completed(s) => Len(s.faults) = Len(s.issue_keys)
                /\ (s.faults # <<>> /\ s.faults[Len(s.faults)] # "none"
                        /\ Len(s.faults) < Len(s.issue_keys))
                    => s.pc # "done"

\* Three keys, a transport error on the second: exported = 2, failed = 1.
C2_Witness ==
    LET s == run[1]
    IN  /\ s.entry = "api_export" /\ Completed(s)
        /\ s.faults = <<"none", "fetch", "none">>
        /\ s.response.exported = 2 /\ s.response.failed = 1
        /\ KeysOf(s.response.errors) = <<s.issue_keys[2]>>

\* C3: a batch takes its issues one at a time in the order of the input:
\* the loop moves to key i+1 only when key i has succeeded or failed, and
\* files and errors grow at their end, by an entry for the current key.
C3_InputOrder ==
    [][\A r \in Reqs :
        LET s == run[r]
            t == run'[r]
        IN  s.entry \in BatchEntries =>
                /\ t.idx # s.idx =>
                        t.idx = s.idx + 1 /\ s.pc = "loop" /\ Len(s.faults) = s.idx
                /\ t.results # s.results =>
                        /\ Len(t.results) = Len(s.results) + 1
                        /\ SubSeq(t.results, 1, Len(s.results)) = s.results
                        /\ t.results[Len(t.results)].issue_key = s.issue_keys[s.idx]
                /\ t.errors # s.errors =>
                        /\ Len(t.errors) = Len(s.errors) + 1
                        /\ SubSeq(t.errors, 1, Len(s.errors)) = s.errors
                        /\ t.errors[Len(t.errors)].issue_key = s.issue_keys[s.idx]
                /\ Len(t.faults) + Len(t.steps) > Len(s.faults) + Len(s.steps) =>
                        t.idx = s.idx /\ Len(s.faults) = s.idx - 1]_vars

\* The loop is at its third key, with a file and an error behind it.
C3_Witness ==
    LET s == run[1]
    IN  /\ s.entry \in BatchEntries /\ s.idx = 3 /\ s.pc = "render"
        /\ Len(s.results) = 1 /\ Len(s.errors) = 1

\* The rank of a pipeline step.
Rank(op) ==
    CASE op \in {"fetch", "fields"} -> 1
      [] op = "download" -> 2
      [] op = "render" -> 3
      [] OTHER -> 4

\* The download steps among the steps of an issue.
Downloads(steps) == SelectSeq(steps, LAMBDA x : x.op = "download")

\* C4: the steps of an issue come in the order fetch, downloads, render:
\* a download follows a fetch that succeeded (the query of the command
\* line fetched its issues before the loop), the downloads take the
\* attachments of the record one by one in its order, and the renderer
\* starts when every attachment was handled.
C4_PipelineOrder ==
    \A r \in Reqs :
        LET s == run[r]
            d == Downloads(s.steps)
            wanted == IF s.download_attachments THEN Len(s.issue_data.attachments) ELSE 0
        IN  /\ \A i, j \in 1..Len(s.steps) :
                    i < j => Rank(s.steps[i].op) <= Rank(s.steps[j].op)
            /\ \A i \in 1..Len(d) : d[i].n = i
            /\ d # <<>> =>
                    /\ s.issue_data # NoIssue /\ Len(d) <= wanted
                    /\ s.entry # "cli_multi" => s.steps[1] = [op |-> "fetch", ok |-> TRUE, n |-> 0]
            /\ (s.pc = "render" \/ \E i \in 1..Len(s.steps) : s.steps[i].op = "render") =>
                    /\ s.issue_data # NoIssue /\ Len(d) = wanted
                    /\ s.entry # "cli_multi" => s.steps[1] = [op |-> "fetch", ok |-> TRUE, n |-> 0]

\* An issue with MaxAtt attachments was fetched, its attachments were
\* handled (the first download failed) and the renderer has run.
C4_Witness ==
    LET s == run[1]
    IN  /\ Len(s.steps) = MaxAtt + 2
        /\ s.steps[1].op = "fetch" /\ ~s.steps[2].ok
        /\ s.steps[Len(s.steps)] = [op |-> "render", ok |-> TRUE, n |-> 0]

\* The errors the entry points report for missing credentials.
CredentialErrors ==
    {"Missing Jira credentials", "Server not configured with Jira credentials",
     "Fyll i alla falt", "Saknar Jira-credentials", "Saknade konfigurationer"}

\* C5: a run whose credentials are incomplete once they are resolved
\* reports them as an error (a batch request without keys is refused for
\* that first) and sends no request to the tracker.
C5_CredentialsFirst ==
    \A r \in Reqs :
        LET s == run[r]
        IN  (s.entry # "idle" /\ ~AllSet(s.creds)) =>
                /\ ~s.http /\ s.pc = "done"
                /\ \/ s.response.error \in CredentialErrors
                   \/ s.entry = "api_export" /\ s.issue_keys = <<>>
                         /\ s.response.error = "No issue_keys provided"

\* A batch request with keys and a URL, without a token, was answered.
C5_Witness ==
    LET s == run[1]
    IN  /\ s.entry = "api_export" /\ s.issue_keys # <<>>
        /\ s.creds.jira_url # "" /\ s.creds.api_token = ""
        /\ s.response.error = "Missing Jira credentials" /\ ~s.http

\* C6 (as the code has it): a status other than 200 answered to the issue
\* request of get_issue, to the field-name request it makes, or to a page
\* request of get_issues_by_jql raises out of the Fetcher operation, and the
\* caller records it; the same status answered to the full fetch of an
\* issue a query found, or to the field-name request made while parsing
\* it, is caught inside get_issues_by_jql and never reaches the caller.
C6_StatusRaises ==
    \A r \in Reqs :
        LET s == run[r]
        IN  /\ s.rejected \cap {"issue", "fields", "page"} \subseteq s.propagated
            /\ s.propagated \cap {"stub", "stub_fields"} = {}
            /\ "page" \in s.rejected => s.pc = "done" /\ s.raised = "HTTPError"
            /\ "issue" \in s.rejected =>
                    s.faults # <<>> /\ s.faults[Len(s.faults)] = "fetch"
            /\ "fields" \in s.rejected =>
                    s.faults # <<>> /\ s.faults[Len(s.faults)] = "fields"

\* A query returned issues although the tracker refused one full fetch.
C6_Witness ==
    LET s == run[1]
    IN  /\ s.entry = "cli_multi" /\ "stub" \in s.rejected
        /\ s.raised = "" /\ s.issues # <<>> /\ s.pc = "loop"

\* C6 as stated: every status other than 200 answered to a Fetcher request
\* raises out of the Fetcher operation that made the request.
C6_EveryStatusRaises ==
    \A r \in Reqs : run[r].rejected \subseteq run[r].propagated

\* C7: get_issues_by_jql collects at most max_results issues; a page
\* request asks for at most min(50, max_results - issues collected), and
\* none is sent once a page said it was the last or the cap is reached.
\* (The tracker answers a page request with at most maxResults issues.)
C7_Paging ==
    [][\A r \in Reqs :
        LET s == run[r]
            t == run'[r]
        IN  /\ Len(t.issues) <= t.max_results
            /\ t.page_requests > s.page_requests =>
                    /\ t.page_requests = s.page_requests + 1
                    /\ t.asked <= Min(PageSize, s.max_results - Len(s.issues))
                    /\ t.asked <= PageSize
                    /\ ~s.last_seen
                    /\ Len(s.issues) < s.max_results]_vars

\* A query capped above the page size took a full page, then the rest.
C7_Witness ==
    LET s == run[1]
    IN  /\ s.max_results = MaxResults /\ s.page_requests = 2
        /\ s.asked = MaxResults - PageSize /\ Len(s.issues) = MaxResults

\* The run of a query that went well and matched nothing.
EmptyQuery(s) ==
    /\ s.entry = "cli_multi" /\ s.pc = "done" /\ s.page_requests > 0
    /\ s.raised = "" /\ s.issues = <<>>

\* C8 (as the code has it): a query that matches nothing makes
\* get_issues_by_jql return an empty list without raising; main then prints
\* that no issues were found and runs no batch, the search endpoint answers
\* success with count 0; POST /api/export with an empty list of keys is
\* answered 400 "No issue_keys provided", not a summary.
C8_NothingMatched ==
    \A r \in Reqs :
        LET s == run[r]
        IN  /\ EmptyQuery(s) =>
                    /\ s.printed = "Inga issues hittades"
                    /\ s.response = NoResponse
                    /\ s.results = <<>> /\ s.errors = <<>> /\ s.steps = <<>>
            /\ (s.entry = "api_search" /\ s.response.success /\ s.response.issues = <<>>) =>
                    s.response.count = 0 /\ s.response.error = ""
            /\ (s.entry = "api_export" /\ s.pc = "done" /\ s.issue_keys = <<>>) =>
                    /\ s.response.status = 400 /\ ~s.response.success
                    /\ s.response.error = "No issue_keys provided"

\* A query asked its pages and matched nothing.
C8_Witness ==
    EmptyQuery(run[1]) /\ run[1].http /\ run[1].printed = "Inga issues hittades"

\* C8 as stated: no issue to export gives a batch summary, reported as
\* success with exported = 0 and failed = 0.
C8_EmptyBatchSucceeds ==
    \A r \in Reqs :
        LET s == run[r]
        IN  /\ EmptyQuery(s) => s.printed = "Exporterade"
            /\ (s.entry = "api_export" /\ s.pc = "done" /\ s.issue_keys = <<>>) =>
                    /\ s.response.success /\ s.response.error = ""
                    /\ s.response.exported = 0 /\ s.response.failed = 0

\* C9: in a single-issue export (the endpoint, export_single_issue of the
\* command line) a fetch or a render that fails is the last step of the
\* issue; the endpoint answers 500 with the error and success = false,
\* export_single_issue prints it and returns no path; success is answered
\* only when the fetch, the render and the read went well.
C9_SingleIssueFails ==
    \A r \in Reqs :
        LET s == run[r]
            failed(i) == ~s.steps[i].ok /\ s.steps[i].op \in {"fetch", "fields", "render"}
        IN  s.entry \in {"api_single", "cli"} =>
                /\ \A i \in 1..Len(s.steps) : failed(i) =>
                        /\ i = Len(s.steps)
                        /\ s.pc \in {"loop", "done"}
                        /\ s.faults # <<>> /\ s.faults[Len(s.faults)] = s.steps[i].op
                /\ s.entry = "api_single" =>
                        /\ (\E i \in 1..Len(s.steps) : failed(i)) =>
                                /\ s.response.status = 500 /\ ~s.response.success
                                /\ s.response.error # "" /\ s.response.files = <<>>
                        /\ s.response.success =>
                                /\ s.faults = <<"none">>
                                /\ \A i \in 1..Len(s.steps) :
                                        s.steps[i].op # "download" => s.steps[i].ok
                                /\ \E i \in 1..Len(s.steps) : s.steps[i].op = "render"
                /\ s.entry = "cli" =>
                        /\ KeysOf(s.results) = Pick(s.issue_keys, s.faults, TRUE)
                        /\ KeysOf(s.errors) = Pick(s.issue_keys, s.faults, FALSE)

\* The endpoint fetched the issue, the renderer raised, the answer is 500.
C9_Witness ==
    LET s == run[1]
    IN  /\ s.entry = "api_single" /\ s.pc = "done"
        /\ s.steps = <<[op |-> "fetch", ok |-> TRUE, n |-> 0],
                       [op |-> "render", ok |-> FALSE, n |-> 0]>>
        /\ s.response.status = 500 /\ s.response.error = "RenderError"

\* C10: two requests that run side by side do not meet: a request reads the
\* file its own renderer wrote, finds it where the renderer put it, and
\* the attachments it staged stay its own while it works on the issue.
C10_NoInterference ==
    \A r \in Reqs :
        LET s == run[r]
        IN  /\ \A i \in 1..Len(s.results) : s.results[i].content.by = r
            /\ \A i \in 1..Len(s.faults) : s.faults[i] # "read"
            /\ s.pc = "read" => s.file_path \in DOMAIN fs /\ fs[s.file_path].by = r
            /\ s.pc \in {"download", "render"} =>
                    \A i \in 1..Len(s.attachment_paths) :
                        /\ s.attachment_paths[i] \in DOMAIN fs
                        /\ fs[s.attachment_paths[i]].by = r

\* C11: once an export endpoint has answered, no output file its request
\* rendered is left in the temporary directory, except a file os.remove
\* could not delete.
C11_OutputRemoved ==
    \A r \in Reqs :
        LET s == run[r]
        IN  (s.entry \in {"api_export", "api_single"} /\ s.pc = "done") =>
                \A p \in DOMAIN fs : (fs[p].by = r /\ fs[p].att = 0) => p \in s.kept

\* C12 (as the code has it): a Fetcher requests the field names only
\* while it holds no table; once a request has succeeded the table is
\* cached and the endpoint is never requested again by that Fetcher.  A
\* request that fails caches nothing, and the next normalization asks again.
C12_FieldNamesCached ==
    [][\A r \in Reqs :
        LET s == run[r]
            t == run'[r]
        IN  s.entry = t.entry =>
                /\ t.field_requests > s.field_requests => ~s.field_names
                /\ s.field_names => t.field_names /\ t.field_requests = s.field_requests
                /\ (t.field_names /\ ~s.field_names) => t.field_requests > s.field_requests]_vars

\* Two issues were normalized with one request of the table.
C12_Witness ==
    LET s == run[1]
    IN  /\ s.field_names /\ s.field_requests = 1
        /\ Len(s.faults) >= 2 /\ s.faults[1] = "none" /\ s.faults[2] = "none"

\* C12 as stated: a Fetcher requests the field endpoint at most once.
C12_RequestedOnce ==
    \A r \in Reqs : run[r].field_requests <= 1

\* A user of the record is None or has every field.
WholeUser(u) == u.none \/ (u.name # Null /\ u.email # Null /\ u.avatar_url # Null)

\* C13: every optional relation of an Issue Record is None or a structure
\* with all of its fields: no field of it is None.
C13_RelationsWhole ==
    \A r \in Reqs :
        LET rec == run[r].record
        IN  run[r].entry = "parse" =>
                /\ WholeUser(rec.assignee)
                /\ WholeUser(rec.reporter)
                /\ rec.parent.none \/ (rec.parent.key # Null /\ rec.parent.summary # Null)

\* A field name with a skip pattern in it, whatever the case.
Skipped(name) == \E pat \in SkipPatterns : Contains(Lower(name), pat)

\* A raw value that is null or empty.
EmptyRaw(v) ==
    \/ v.k = "null"
    \/ v.k = "str" /\ v.s = ""
    \/ v.k = "list" /\ v.items = <<>>
    \/ v.k = "obj" /\ v.value = Absent /\ v.name = Absent /\ v.displayName = Absent

\* C14: custom_fields holds no field whose name has a skip pattern in it
\* and no field whose raw value is null or empty.
C14_CustomFieldsFiltered ==
    \A r \in Reqs :
        LET cf == run[r].record.custom_fields
        IN  run[r].entry = "parse" =>
                \A n \in DOMAIN cf :
                    /\ ~Skipped(n)
                    /\ ~EmptyRaw(FieldValue(run[r].raw.fields, cf[n].id))

\* The ids of the raw fields whose values the record shows as
\* story_points, as epic or among the sprints.
Surfaced(raw) ==
    {raw.names[i].id : i \in
        ({FindCustomFieldAt(raw.fields, raw.names, StoryTerms),
          FindCustomFieldAt(raw.fields, raw.names, EpicTerms)} \ {0})
        \cup {j \in SprintsAt(raw.fields, raw.names) :
                FieldValue(raw.fields, raw.names[j].id).items # <<>>}}

\* C15: no raw field whose value the record shows as story_points, epic or
\* sprints is an entry of custom_fields too.
C15_NotSurfacedTwice ==
    \A r \in Reqs :
        LET cf == run[r].record.custom_fields
        IN  run[r].entry = "parse" =>
                \A n \in DOMAIN cf : cf[n].id \notin Surfaced(run[r].raw)

\* The first of value, name, displayName an object has.
FirstKey(v) ==
    IF v.value # Absent THEN v.value ELSE IF v.name # Absent THEN v.name ELSE v.displayName

\* C16: a custom field whose raw value is an object with one of the keys
\* value, name, displayName is stored under its name (when the name has no
\* skip pattern), and what is stored for it is the first of these keys.
C16_ObjectScalar ==
    \A r \in Reqs :
        LET raw == run[r].raw
            cf == run[r].record.custom_fields
        IN  run[r].entry = "parse" =>
                \A i \in 1..Len(raw.fields) :
                    LET v == raw.fields[i].value
                        n == NameOf(raw.names, raw.fields[i].id)
                    IN  (/\ StartsWith(raw.fields[i].id, CustomPrefix)
                         /\ v.k = "obj" /\ ~EmptyRaw(v) /\ ~Skipped(n)) =>
                            /\ n \in DOMAIN cf
                            /\ cf[n].id = raw.fields[i].id =>
                                    cf[n].value = IF FirstKey(v) = Null THEN None
                                                  ELSE Str(FirstKey(v))

\* 'QA Tester' with {displayName: 'QA Team'} gives 'QA Team'.
C16_Witness ==
    LET raw == run[1].raw
        cf == run[1].record.custom_fields
        qa == <<"Q", "A", " ", "T", "e", "s", "t", "e", "r">>
    IN  /\ run[1].entry = "parse" /\ Len(raw.fields) = 2
        /\ raw.fields[1].value = Val("obj", "", <<>>, Absent, Absent, "QA Team")
        /\ qa \in DOMAIN cf /\ cf[qa].value = Str("QA Team")

\* C17: a renderer writes the file {issue_key}.{extension} into its output
\* directory, and the filename an export endpoint reports for an issue is
\* the name of the file that was rendered for it.
C17_FileNamed ==
    [][\A r \in Reqs :
        LET s == run[r]
            t == run'[r]
        IN  /\ (t.file_path # s.file_path /\ t.file_path # NoPath) =>
                    /\ t.file_path = OutPath(OutputDir(t.entry), t.issue_data.key, FileExt(t))
                    /\ t.file_path \in DOMAIN fs'
            /\ (t.entry \in {"api_export", "api_single"} /\ Len(t.results) > Len(s.results)) =>
                    t.results[Len(t.results)].filename = <<s.file_path[2], s.file_path[3]>>]_vars

\* The order of the sections of a document.
SectionOrder ==
    <<"header", "title", "status", "details", "description", "custom_fields",
      "attachments", "subtasks", "links", "comments", "footer">>

\* The place of a section in that order; 0 for a section it does not name.
OrderOf(section) ==
    IF \E k \in 1..Len(SectionOrder) : SectionOrder[k] = section
    THEN CHOOSE k \in 1..Len(SectionOrder) : SectionOrder[k] = section
    ELSE 0

\* C18: the PDF, the Word and the Markdown renderer emit the sections that
\* are present in one order: header, title, status and priority, details,
\* description, custom fields, attachments, subtasks, linked issues,
\* comments, footer; no section comes before one that precedes it there.
C18_SectionOrder ==
    \A r \in Reqs :
        LET secs == run[r].doc.sections
        IN  run[r].entry = "render" =>
                \A i, j \in 1..Len(secs) :
                    (i < j /\ OrderOf(secs[i]) # 0 /\ OrderOf(secs[j]) # 0) =>
                        OrderOf(secs[i]) < OrderOf(secs[j])

\* The attachment has an image extension and the file downloaded under
\* its filename is there.
ImageAtHand(doc, i) ==
    /\ Lower(Splitext(doc.attachments[i])) \in ImageExtensions
    /\ \E k \in 1..Len(doc.attachment_paths) :
            /\ Basename(doc.attachment_paths[k]) = doc.attachments[i]
            /\ doc.attachment_paths[k] \in doc.files

\* C19: a renderer shows an attachment as an image exactly when its
\* extension is .png .jpg .jpeg .gif .bmp or .webp, whatever the case, and
\* the file downloaded under its filename exists.
C19_InlinedWhenAtHand ==
    \A r \in Reqs :
        LET doc == run[r].doc
        IN  run[r].entry = "render" =>
                \A i \in 1..Len(doc.attachments) :
                    i \in doc.inlined <=> ImageAtHand(doc, i)

\* The greatest width and height of a renderer; the Word renderer has no
\* greatest height.
MaxWidth(renderer) ==
    CASE renderer = "pdf" -> Frac(PdfMaxWidth, PointDen)
      [] renderer = "docx" -> Frac(WordWidth, PointDen)
      [] OTHER -> Frac(PngMaxWidth, 1)

MaxHeight(renderer) ==
    CASE renderer = "pdf" -> Frac(PdfMaxHeight, PointDen)
      [] OTHER -> Frac(PngMaxHeight, 1)

\* C20: an image shown by a renderer keeps the aspect ratio of its source
\* (but for the rounding to pixels), is not above the maximum of the
\* renderer in width or height, and is not larger than its source.
C20_ImageScaled ==
    \A r \in Reqs :
        LET im == run[r].image
            src == im.src
            out == im.out
        IN  run[r].entry = "image" =>
                /\ IF im.renderer = "png"
                   THEN Abs(out.w.n * src.h - out.h.n * src.w) <
                            (IF src.w > src.h THEN src.w ELSE src.h)
                   ELSE Frac(out.w.n, out.w.d * src.w) = Frac(out.h.n, out.h.d * src.h)
                /\ Leq(out.w, MaxWidth(im.renderer))
                /\ im.renderer # "docx" => Leq(out.h, MaxHeight(im.renderer))
                /\ Leq(out.w, Frac(src.w, 1))
                /\ Leq(out.h, Frac(src.h, 1))

\* C21: no renderer writes more than 1000 characters of a comment body,
\* however long the comment is.
C21_CommentCapped ==
    \A r \in Reqs :
        run[r].entry = "comment" => run[r].comment.out <= CommentCap

\* The places in attachment_paths of the files that exist and have an
\* image extension.
PngImages(doc) ==
    {k \in 1..Len(doc.attachment_paths) :
        /\ Lower(Splitext(Basename(doc.attachment_paths[k]))) \in ImageExtensions
        /\ doc.attachment_paths[k] \in doc.files}

C23_BrokenSkipped ==
    \A r \in Reqs :
        LET doc == run[r].doc
        IN  (/\ run[r].entry \in {"render", "png"}
             /\ \E p \in doc.files : p \notin doc.readable) =>
                /\ run[r].raised = ""
                /\ doc.sections # <<>>

\* The fields of the name table, by position, that are set in the raw issue
\* and whose name contains one of the terms, whatever the case.
SetMatches(raw, terms) ==
    {i \in 1..Len(raw.names) :
        /\ \E k \in 1..Len(raw.fields) :
              raw.fields[k].id = raw.names[i].id /\ raw.fields[k].value # None
        /\ \E t \in terms : Contains(Lower(raw.names[i].name), Lower(t))}

\* What the field at a position of the name table gives: of an object its
\* value, else its name, else the object; any other value as it is.
TakenFrom(raw, i) ==
    LET v == FieldValue(raw.fields, raw.names[i].id)
    IN  IF v.k = "obj" /\ Truthy(v.value) THEN Str(v.value)
        ELSE IF v.k = "obj" /\ Truthy(v.name) THEN Str(v.name)
        ELSE v

\* story_points or epic for its terms: from the first such field, None
\* exactly when there is none.
FromFirst(raw, got, terms) ==
    LET m == SetMatches(raw, terms)
    IN  IF m = {} THEN got = None
        ELSE got = TakenFrom(raw, CHOOSE i \in m : \A j \in m : i <= j) /\ got # None

\* C24: story points and epic of a normalized issue are taken from the first
\* field, in the order of the name table, that is set and whose name contains
\* one of the search terms whatever the case; later matching fields are
\* ignored, and the value is None exactly when no matching field is set.
C24_FirstMatch ==
    run[1].entry = "parse" =>
        /\ FromFirst(run[1].raw, run[1].record.story_points, StoryTerms)
        /\ FromFirst(run[1].raw, run[1].record.epic, EpicTerms)

\* Two fields named 'Story Points' are set to different values, and the
\* record has the value of the first.
C24_Witness ==
    /\ run[1].entry = "parse"
    /\ SetMatches(run[1].raw, StoryTerms) = {1, 2}
    /\ TakenFrom(run[1].raw, 1) # TakenFrom(run[1].raw, 2)
    /\ run[1].record.story_points = TakenFrom(run[1].raw, 1)
\* The fields of the name table, by position, that are in the raw issue and
\* whose name contains 'sprint', whatever the case.
SprintFields(raw) ==
    {i \in 1..Len(raw.names) :
        /\ \E k \in 1..Len(raw.fields) : raw.fields[k].id = raw.names[i].id
        /\ Contains(Lower(raw.names[i].name), <<"s", "p", "r", "i", "n", "t">>)}

\* The entries of the list that the field at a position holds: of an object
\* its name and state, of a string the string and 'unknown'.
ListEntries(raw, i) ==
    LET v == FieldValue(raw.fields, raw.names[i].id)
        items == SelectSeq(v.items, LAMBDA x : x.k \in {"obj", "str"})
    IN  [j \in 1..Len(items) |->
            IF items[j].k = "str" THEN [name |-> items[j].name, state |-> "unknown"]
            ELSE [name |-> IF items[j].name = Absent THEN "Unknown" ELSE items[j].name,
                  state |-> IF items[j].state = Absent THEN "unknown" ELSE items[j].state]]

\* The number of entries of the sprint fields before a position.
RECURSIVE EntriesBefore(_, _)
EntriesBefore(raw, i) ==
    IF i <= 1 THEN 0
    ELSE EntriesBefore(raw, i - 1)
         + (IF i - 1 \in SprintFields(raw) THEN Len(ListEntries(raw, i - 1)) ELSE 0)

\* C25: when several fields have a name containing 'sprint', sprints holds
\* the entries of every one of them, field after field in the order of the
\* name table and each field's entries in their raw order; no field's entries
\* are dropped or overridden by another's.
C25_AllSprintFields ==
    run[1].entry = "parse" =>
        LET raw == run[1].raw
            sprints == run[1].record.sprints
        IN  /\ Len(sprints) = EntriesBefore(raw, Len(raw.names) + 1)
            /\ \A i \in SprintFields(raw) :
                   SubSeq(sprints, EntriesBefore(raw, i) + 1, EntriesBefore(raw, i + 1))
                       = ListEntries(raw, i)

\* Two fields named 'Sprint' hold a list each, and the entries of the second
\* follow those of the first.
C25_Witness ==
    /\ run[1].entry = "parse"
    /\ SprintFields(run[1].raw) = {1, 2}
    /\ ListEntries(run[1].raw, 1) # <<>>
    /\ ListEntries(run[1].raw, 2) # <<>>
    /\ ListEntries(run[1].raw, 1) # ListEntries(run[1].raw, 2)
    /\ run[1].record.sprints = ListEntries(run[1].raw, 1) \o ListEntries(run[1].raw, 2)

\* The raw values of the field at a position: the items of a list, the one
\* value of a field that holds no list, none for null.
RawSprintValues(raw, i) ==
    LET v == FieldValue(raw.fields, raw.names[i].id)
    IN  IF v.k = "list" THEN Len(v.items) ELSE IF v.k = "null" THEN 0 ELSE 1

\* C26: every raw value of a sprint field has its entry in sprints, an
\* object with its name and state, a plain string with the string as name
\* and the state 'unknown'; no value that is not null is dropped.
C26_EveryValueEntered ==
    run[1].entry = "parse" =>
        LET raw == run[1].raw
            sprints == run[1].record.sprints
            sum[i \in 0..Len(raw.names)] ==
                IF i = 0 THEN 0
                ELSE sum[i - 1] + (IF i \in SprintFields(raw) THEN RawSprintValues(raw, i) ELSE 0)
        IN  /\ Len(sprints) = sum[Len(raw.names)]
            /\ \A i \in SprintFields(raw) :
                   LET v == FieldValue(raw.fields, raw.names[i].id)
                   IN  v.k = "str" => \E j \in 1..Len(sprints) :
                                          sprints[j] = [name |-> v.str, state |-> "unknown"]
\* The texts of the text nodes of a content list, at any depth.
RECURSIVE TextsOf(_)
TextsOf(content_list) ==
    UNION {IF content_list[i].type = "text" THEN {content_list[i].text}
           ELSE TextsOf(content_list[i].content) : i \in 1..Len(content_list)}

\* The types the walk has a branch for.
RecognizedTypes ==
    {"text", "paragraph", "heading", "bulletList", "orderedList", "listItem", "codeBlock",
     "blockquote", "hardBreak", "mention", "emoji", "inlineCard", "blockCard",
     "mediaGroup", "mediaSingle"}

\* C27: in the walk of a rich-text tree a node of a type that is not
\* recognized gives nothing when it has no nested content and exactly the
\* conversion of its nested content when it has some; and the text in the
\* content of a node, at any depth, is never lost: it is in the output.
C27_TextNeverLost ==
    run[1].entry = "text" =>
        /\ \A i \in 1..Len(run[1].adf) :
               LET node == run[1].adf[i]
               IN  (Len(run[1].adf) = 1 /\ node.type \notin RecognizedTypes) =>
                       run[1].text = IF node.has THEN ParseAdfContent(node.content) ELSE <<>>
        /\ \A t \in TextsOf(run[1].adf) : Contains(run[1].text, PyStrip(t))
\* The local paths of the downloads that succeeded, in their order.
PathsOf(s) ==
    LET ok == SelectSeq(s.steps, LAMBDA x : x.op = "download" /\ x.ok)
    IN  [k \in 1..Len(ok) |->
            AttPath(OutputDir(s.entry), s.issue_keys[s.idx], s.issue_data.attachments[ok[k].n])]

\* C28: download_all_attachments never raises because a download failed:
\* download_attachment gives None for it, the list returned holds the local
\* paths of the downloads that succeeded, in the order of the record, and
\* after a failed download the later attachments are still downloaded and
\* the issue is still rendered (the single-issue endpoint refuses a format
\* it does not render where it picks the renderer).
C28_FailedDownloadSkipped ==
    \A r \in Reqs :
        LET s == run[r]
            d == Downloads(s.steps)
            last == Len(s.issue_data.attachments)
        IN  (s.idx > 0 /\ d # <<>>) =>
                /\ s.pc \in {"download", "render"} => s.attachment_paths = PathsOf(s)
                /\ \A i \in 1..Len(d) : ~d[i].ok =>
                       /\ s.raised = ""
                       /\ d[i].n < last =>
                              \/ i < Len(d) /\ d[i + 1].n = d[i].n + 1
                              \/ i = Len(d) /\ s.pc = "download"
                       /\ d[i].n = last =>
                              \/ s.pc = "render"
                              \/ \E k \in 1..Len(s.steps) : s.steps[k].op = "render"
                              \/ s.faults # <<>> /\ s.faults[Len(s.faults)] = "format"

\* The first download of an issue failed, the second succeeded, and the
\* renderer is about to start with the path of the second alone.
C28_Witness ==
    \E r \in Reqs :
        /\ run[r].pc = "render"
        /\ Len(run[r].steps) >= 2
        /\ run[r].steps[Len(run[r].steps) - 1] = [op |-> "download", ok |-> FALSE, n |-> 1]
        /\ run[r].steps[Len(run[r].steps)] = [op |-> "download", ok |-> TRUE, n |-> 2]
        /\ Len(run[r].attachment_paths) = 1
        /\ run[r].attachment_paths = PathsOf(run[r])
\* C29: when the rendering of an issue starts, every local path that
\* download_all_attachments returned holds the content of the attachment it
\* was returned for, and distinct attachments have distinct local files,
\* two attachments with the same filename included.
C29_PathHoldsItsAttachment ==
    \A r \in Reqs :
        (run[r].pc = "render" /\ run[r].idx > 0) =>
            LET paths == run[r].attachment_paths
                ok == SelectSeq(run[r].steps, LAMBDA x : x.op = "download" /\ x.ok)
            IN  /\ Len(paths) = Len(ok)
                /\ \A k \in 1..Len(paths) :
                       /\ paths[k] \in DOMAIN fs
                       /\ fs[paths[k]].att = ok[k].n
                /\ \A j, k \in 1..Len(paths) : j # k => paths[j] # paths[k]
\* C30: get_issues_by_jql terminates whatever the tracker answers, as long
\* as every request returns: the page requests are bounded, also when the
\* pages are empty or every full fetch fails while the tracker goes on
\* announcing a next page.  A page request that is followed by another has
\* lengthened `issues`, so that max_results - len(issues) decreases, and
\* there are never more page requests than max_results.
C30_PagingTerminates ==
    /\ [][\A r \in Reqs :
             (run[r].pc = "jql_page" /\ run'[r].pc = "jql_page"
                 /\ run'[r].page_requests = run[r].page_requests + 1) =>
                 Len(run'[r].issues) > Len(run[r].issues)]_vars
    /\ [](\A r \in Reqs : run[r].pc = "jql_page" => run[r].page_requests < run[r].max_results)
====
